---- MODULE Spec2Model ----
(***************************************************************************)
(* Model of the selective, signed version-bump commit of                   *)
(* cargo-version-info (src/commands/bump): the line classifier of diff.rs, *)
(* the tree rebuild and the commit orchestration of commit.rs, and the     *)
(* signing entry point of signing.rs.                                      *)
(*                                                                         *)
(* A text is a sequence of one-character strings.  An object id is         *)
(* modelled by the object it names (content addressing: equal content,     *)
(* equal id).                                                              *)
(***************************************************************************)
EXTENDS Integers, Sequences, FiniteSets, TLC

(***************************************************************************)
(* Text helpers (Rust str operations used by the code).                    *)
(***************************************************************************)

\* str::contains(pat): pat occurs as a contiguous substring of s.
Contains(s, pat) ==
    \E i \in 0..(Len(s) - Len(pat)) : SubSeq(s, i + 1, i + Len(pat)) = pat

\* str::replace(from, to) for single characters.
ReplaceChar(s, from, to) ==
    [i \in 1..Len(s) |-> IF s[i] = from THEN to ELSE s[i]]

\* Index of the first "\n" of a non-empty text, 0 when there is none.
FirstNewline(text) ==
    IF \E i \in 1..Len(text) : text[i] = "\n"
    THEN CHOOSE i \in 1..Len(text) :
            /\ text[i] = "\n"
            /\ \A j \in 1..(i - 1) : text[j] # "\n"
    ELSE 0

\* TextDiff::from_lines tokenisation: every line keeps its "\n"; a last line
\* without "\n" is a line of its own.
RECURSIVE SplitLines(_)
SplitLines(text) ==
    IF text = <<>> THEN <<>>
    ELSE LET n == FirstNewline(text) IN
         IF n = 0 THEN <<text>>
         ELSE <<SubSeq(text, 1, n)>> \o SplitLines(SubSeq(text, n + 1, Len(text)))

\* Vec<&str>::join("").
RECURSIVE JoinLines(_)
JoinLines(lines) ==
    IF lines = <<>> THEN <<>> ELSE Head(lines) \o JoinLines(Tail(lines))

(***************************************************************************)
(* Regular expressions of diff.rs: a pattern is a sequence of items, each  *)
(* a literal, an optional character of a class, or a starred class.        *)
(***************************************************************************)
Whitespace == {" ", "\t", "\n", "\r"}

Lit(s) == [t |-> "lit", s |-> s, set |-> {}]
Opt(set) == [t |-> "opt", s |-> <<>>, set |-> set]
Star(set) == [t |-> "star", s |-> <<>>, set |-> set]

RECURSIVE MatchFrom(_, _, _, _)
MatchFrom(line, i, pat, k) ==
    IF k > Len(pat) THEN TRUE
    ELSE IF pat[k].t = "lit"
         THEN /\ i + Len(pat[k].s) - 1 <= Len(line)
              /\ SubSeq(line, i, i + Len(pat[k].s) - 1) = pat[k].s
              /\ MatchFrom(line, i + Len(pat[k].s), pat, k + 1)
    ELSE IF pat[k].t = "opt"
         THEN \/ MatchFrom(line, i, pat, k + 1)
              \/ /\ i <= Len(line)
                 /\ line[i] \in pat[k].set
                 /\ MatchFrom(line, i + 1, pat, k + 1)
    ELSE \/ MatchFrom(line, i, pat, k + 1)
         \/ /\ i <= Len(line)
            /\ line[i] \in pat[k].set
            /\ MatchFrom(line, i + 1, pat, k)

\* Regex::is_match: unanchored search.
IsMatch(line, pat) == \E i \in 1..(Len(line) + 1) : MatchFrom(line, i, pat, 1)

KwVersion == <<"v", "e", "r", "s", "i", "o", "n">>
KwName == <<"n", "a", "m", "e">>

(***************************************************************************)
(* The three line predicates of diff.rs.  A predicate value is             *)
(* [kind, crate_name, old_version, new_version].                           *)
(***************************************************************************)

\* apply_version_hunks / has_non_version_changes: is_version_related.
is_version_related(line, old_version, new_version) ==
    \/ Contains(line, KwVersion)
    \/ Contains(line, old_version)
    \/ Contains(line, new_version)

\* name(\s|[-_])?\s*=\s*"version"
ReadmePattern(name, version) ==
    << Lit(name), Opt(Whitespace \cup {"-", "_"}), Star(Whitespace), Lit(<<"=">>),
       Star(Whitespace), Lit(<<"\"">>), Lit(version), Lit(<<"\"">>) >>

is_readme_version_line(line, crate_name, old_version, new_version) ==
    LET hyphenated == ReplaceChar(crate_name, "_", "-")
        underscored == ReplaceChar(crate_name, "-", "_")
    IN \E name \in {hyphenated, underscored} :
          \E version \in {old_version, new_version} :
             IsMatch(line, ReadmePattern(name, version))

\* key\s*=\s*"value"
KeyValuePattern(key, value) ==
    << Lit(key), Star(Whitespace), Lit(<<"=">>), Star(Whitespace),
       Lit(<<"\"">>), Lit(value), Lit(<<"\"">>) >>

\* Every version line counts, whatever version it carries.
is_cargo_lock_line_of_any_version(line, crate_name, old_version, new_version) ==
    \/ IsMatch(line, KeyValuePattern(KwName, crate_name))
    \/ IsMatch(line, << Lit(KwVersion), Star(Whitespace), Lit(<<"=">>) >>)

is_cargo_lock_version_line(line, crate_name, old_version, new_version) ==
    \/ IsMatch(line, KeyValuePattern(KwName, crate_name))
    \/ \E version \in {old_version, new_version} :
          IsMatch(line, KeyValuePattern(KwVersion, version))

IsRelevant(pred, line) ==
    IF pred.kind = "generic"
    THEN is_version_related(line, pred.old_version, pred.new_version)
    ELSE IF pred.kind = "readme"
    THEN is_readme_version_line(line, pred.crate_name, pred.old_version, pred.new_version)
    ELSE is_cargo_lock_version_line(line, pred.crate_name, pred.old_version, pred.new_version)

(***************************************************************************)
(* The line diff.  TextDiff::from_lines(old, new).iter_all_changes()       *)
(* yields a sequence of changes [tag, value].  The diff library is not     *)
(* part of the sources, so the model admits every change list the library  *)
(* can yield: a longest-common-subsequence alignment of the two line       *)
(* lists in which, between two Equal runs, all Delete changes precede all  *)
(* Insert changes.                                                         *)
(***************************************************************************)
Change(tag, value) == [tag |-> tag, value |-> value]

RECURSIVE EditScripts(_, _)
EditScripts(old, new) ==
    IF old = <<>> /\ new = <<>> THEN {<<>>}
    ELSE
      (IF old # <<>> /\ new # <<>> /\ Head(old) = Head(new)
       THEN {<<Change("Equal", Head(old))>> \o r : r \in EditScripts(Tail(old), Tail(new))}
       ELSE {})
      \cup
      (IF old # <<>>
       THEN {<<Change("Delete", Head(old))>> \o r : r \in EditScripts(Tail(old), new)}
       ELSE {})
      \cup
      (IF new # <<>>
       THEN {<<Change("Insert", Head(new))>> \o r :
                r \in {q \in EditScripts(old, Tail(new)) :
                          q = <<>> \/ q[1].tag # "Delete"}}
       ELSE {})

EqualCount(script) == Cardinality({i \in 1..Len(script) : script[i].tag = "Equal"})

\* The change lists of a minimal diff of the two texts.
iter_all_changes(old_text, new_text) ==
    LET all == EditScripts(SplitLines(old_text), SplitLines(new_text))
    IN {s \in all : \A q \in all : EqualCount(q) <= EqualCount(s)}

(***************************************************************************)
(* classify_and_merge: apply_version_hunks, apply_readme_version_hunks and *)
(* apply_cargo_lock_version_hunks share one loop and differ only in the    *)
(* predicate.                                                              *)
(***************************************************************************)
\* Relevant deletions applied, insertions left out.
MergeChangesWithoutInsertions(changes, pred) ==
    LET kept == SelectSeq(changes, LAMBDA c :
                   \/ c.tag = "Equal"
                   \/ c.tag = "Delete" /\ ~IsRelevant(pred, c.value))
    IN [i \in 1..Len(kept) |-> kept[i].value]

RECURSIVE MergeChanges(_, _)
MergeChanges(changes, pred) ==
    IF changes = <<>> THEN <<>>
    ELSE LET change == Head(changes)
             line == change.value
             rest == MergeChanges(Tail(changes), pred)
         IN IF change.tag = "Equal" THEN <<line>> \o rest
            ELSE IF change.tag = "Delete"
                 THEN (IF IsRelevant(pred, line) THEN rest ELSE <<line>> \o rest)
                 ELSE (IF IsRelevant(pred, line) THEN <<line>> \o rest ELSE rest)

\* Every change applied: the working text.
apply_hunks_accepting_every_change(changes, pred) ==
    LET kept == SelectSeq(changes, LAMBDA c : c.tag # "Delete")
    IN JoinLines([i \in 1..Len(kept) |-> kept[i].value])

apply_hunks(changes, pred) == JoinLines(MergeChanges(changes, pred))

\* Only the inserted lines are looked at.
has_non_relevant_insertions(changes, pred) ==
    \E i \in 1..Len(changes) :
       /\ changes[i].tag = "Insert"
       /\ ~IsRelevant(pred, changes[i].value)

\* has_non_version_changes, has_non_readme_version_changes and
\* has_non_cargo_lock_version_changes.
has_non_relevant_changes(changes, pred) ==
    \E i \in 1..Len(changes) :
       /\ changes[i].tag \in {"Delete", "Insert"}
       /\ ~IsRelevant(pred, changes[i].value)

(***************************************************************************)
(* Object model.  Blob, tree and commit objects; a tree entry is           *)
(* [mode, filename, oid] with mode in "blob", "exe", "tree".               *)
(***************************************************************************)
Blob(data) == [kind |-> "blob", data |-> data]
Tree(entries) == [kind |-> "tree", entries |-> entries]
Entry(mode, filename, oid) == [mode |-> mode, filename |-> filename, oid |-> oid]
NoEntry == [mode |-> "none"]

\* The file names of the model in byte order; none is a prefix of another,
\* so appending "/" to the names of directories does not change their order.
NameOrder ==
    << ".gitignore", "Cargo.lock", "Cargo.toml", "README.md", "crates", "foo",
       "lib.rs", "notes.txt", "src" >>

NameRank(filename) == CHOOSE i \in 1..Len(NameOrder) : NameOrder[i] = filename

\* The comparator of tree_entries.sort_by.
EntryLess(a, b) == NameRank(a.filename) < NameRank(b.filename)

\* Insert e into the sorted sequence s, after the entries not greater than it
\* (sort_by is stable).
RECURSIVE InsertSorted(_, _)
InsertSorted(e, s) ==
    IF s = <<>> THEN <<e>>
    ELSE IF EntryLess(e, Head(s)) THEN <<e>> \o s
    ELSE <<Head(s)>> \o InsertSorted(e, Tail(s))

RECURSIVE SortEntries(_)
SortEntries(entries) ==
    IF entries = <<>> THEN <<>>
    ELSE InsertSorted(entries[Len(entries)], SortEntries(SubSeq(entries, 1, Len(entries) - 1)))

\* Tree::lookup_entry_by_path: descend one component at a time; NoEntry when
\* a component is missing or an inner component is not a directory.
RECURSIVE lookup_entry_by_path(_, _)
lookup_entry_by_path(tree, path) ==
    IF path = <<>> THEN NoEntry
    ELSE LET hits == {i \in 1..Len(tree.entries) : tree.entries[i].filename = Head(path)}
         IN IF hits = {} THEN NoEntry
            ELSE LET e == tree.entries[CHOOSE i \in hits : TRUE]
                 IN IF Len(path) = 1 THEN e
                    ELSE IF e.mode = "tree" THEN lookup_entry_by_path(e.oid, Tail(path))
                    ELSE NoEntry

\* update_map: HashMap collected from file_updates, a sequence of
\* <<path, blob id>>; a later pair for the same path replaces an earlier one.
\* The key is the whole repository-relative path.
UpdateMapHas(file_updates, key) ==
    \E i \in 1..Len(file_updates) : file_updates[i][1] = key

UpdateMapGet(file_updates, key) ==
    LET last == CHOOSE i \in 1..Len(file_updates) :
                   /\ file_updates[i][1] = key
                   /\ \A j \in (i + 1)..Len(file_updates) : file_updates[j][1] # key
    IN file_updates[last][2]

\* A tree made of the updated entries only.
update_tree_only_updated(head_tree, file_updates) ==
    Tree(SortEntries(
       SelectSeq([i \in 1..Len(head_tree.entries) |->
                    LET entry == head_tree.entries[i] IN
                    IF UpdateMapHas(file_updates, <<entry.filename>>)
                    THEN Entry(entry.mode, entry.filename,
                               UpdateMapGet(file_updates, <<entry.filename>>))
                    ELSE entry],
                 LAMBDA e : UpdateMapHas(file_updates, <<e.filename>>))))

\* A rebuild that also adds the updates of files the base tree does not
\* have in its root.
update_tree_adding_new_files(head_tree, file_updates) ==
    LET tree_entries ==
          [i \in 1..Len(head_tree.entries) |->
             LET entry == head_tree.entries[i] IN
             IF UpdateMapHas(file_updates, <<entry.filename>>)
             THEN Entry(entry.mode, entry.filename,
                        UpdateMapGet(file_updates, <<entry.filename>>))
             ELSE Entry(entry.mode, entry.filename, entry.oid)]
        added == SelectSeq(file_updates,
                           LAMBDA u : /\ Len(u[1]) = 1
                                      /\ \A i \in 1..Len(head_tree.entries) :
                                            head_tree.entries[i].filename # u[1][1])
    IN Tree(SortEntries(tree_entries
                           \o [i \in 1..Len(added) |-> Entry("blob", added[i][1][1], added[i][2])]))

\* update_tree_with_files: one pass over the entries of head_tree itself;
\* an entry whose file name equals an update's path takes the update's id,
\* every other entry is copied; then the sort; the result is the new tree.
update_tree_with_files(head_tree, file_updates) ==
    LET tree_entries ==
          [i \in 1..Len(head_tree.entries) |->
             LET entry == head_tree.entries[i] IN
             IF UpdateMapHas(file_updates, <<entry.filename>>)
             THEN Entry(entry.mode, entry.filename,
                        UpdateMapGet(file_updates, <<entry.filename>>))
             ELSE Entry(entry.mode, entry.filename, entry.oid)]
    IN Tree(SortEntries(tree_entries))

\* gix::index::State::from_tree: one index entry per non-directory entry of
\* the tree, at any depth, with its full path.
RECURSIVE IndexFromTree(_, _)
IndexFromTree(tree, prefix) ==
    UNION { LET e == tree.entries[i] IN
            IF e.mode = "tree"
            THEN IndexFromTree(e.oid, Append(prefix, e.filename))
            ELSE {[path |-> Append(prefix, e.filename), mode |-> e.mode, oid |-> e.oid]}
          : i \in 1..Len(tree.entries) }

(***************************************************************************)
(* State.                                                                  *)
(*   diff     the classifier applied to one pair of texts                  *)
(*   rebuild  the tree rebuild applied to one base tree and update list    *)
(*   race     two runs on the same repository, each with its position      *)
(*   sign     one call of sign_commit_payload and its environment          *)
(*   call     one call of a formatting function of signing.rs              *)
(*   bump_run one run of the bump command around the commit step           *)
(* and, for one run of commit_version_changes_with_files on a repository:  *)
(*   in_repo     the manifest lies inside a git working copy               *)
(*   HEAD        symbolic (on the branch) or detached                      *)
(*   branch_ref  the commit the branch refs/heads/main points to           *)
(*   objects     the object store                                          *)
(*   index       the staging index, a set of [path, mode, oid]             *)
(*   worktree    the files of the working copy, path -> [present, content] *)
(*   config      the repository configuration                              *)
(*   args        the arguments of the run                                  *)
(*   pc, locals  the position of the run and its local variables           *)
(*   result      "running", "ok" or the error the run returned             *)
(*   log         the writes of the run, in order (history)                 *)
(*   before      HEAD, branch_ref, index and objects at the start (history)*)
(***************************************************************************)
VARIABLES call, bump_run, diff, rebuild, race, sign,
          in_repo, HEAD, branch_ref, objects, index, worktree, config,
          args, pc, locals, result, log, before

repo_vars == <<in_repo, HEAD, branch_ref, objects, index, worktree, config>>
run_vars == <<args, pc, locals, result, log, before>>
vars == <<call, bump_run, diff, rebuild, race, sign, repo_vars, run_vars>>

(***************************************************************************)
(* Bounds and input alphabets.                                             *)
(***************************************************************************)
MaxLines == 3
MaxUpdates == 2

\* All sequences over S of length at most n.
RECURSIVE SeqsUpTo(_, _)
SeqsUpTo(S, n) ==
    IF n = 0 THEN {<<>>}
    ELSE LET shorter == SeqsUpTo(S, n - 1)
         IN shorter \cup {Append(q, x) : q \in shorter, x \in S}

OldVersion == <<"1">>
NewVersion == <<"2">>
CrateName == <<"m", "-", "c">>

GenericPred == [kind |-> "generic", crate_name |-> CrateName,
                old_version |-> OldVersion, new_version |-> NewVersion]
ReadmePred == [kind |-> "readme", crate_name |-> CrateName,
               old_version |-> OldVersion, new_version |-> NewVersion]
CargoLockPred == [kind |-> "cargo_lock", crate_name |-> CrateName,
                  old_version |-> OldVersion, new_version |-> NewVersion]

\* Lines of a manifest: two lines that are not version-related (one of them
\* without a final newline) and the old and the new version line.
GenericLines ==
    { <<"a", "\n">>, <<"b">>, <<"v", "=", "1", "\n">>, <<"v", "=", "2", "\n">> }

\* Lines of a README: the dependency line at the old and at the new version
\* (hyphen and underscore spelling), a dependency on another crate at the
\* old version, and a line without a final newline.
ReadmeLines ==
    { <<"m", "-", "c", "=", "\"", "1", "\"", "\n">>,
      <<"m", "_", "c", " ", "=", " ", "\"", "2", "\"", "\n">>,
      <<"x", "=", "\"", "1", "\"", "\n">>,
      <<"b">> }

\* Lines of a lock file: version lines at the old version, the new version
\* and a third version, and a line without a final newline.
CargoLockLines ==
    { <<"v", "e", "r", "s", "i", "o", "n", "=", "\"", "1", "\"", "\n">>,
      <<"v", "e", "r", "s", "i", "o", "n", " ", "=", " ", "\"", "2", "\"", "\n">>,
      <<"v", "e", "r", "s", "i", "o", "n", "=", "\"", "3", "\"", "\n">>,
      <<"b">> }

LinesOf(pred) ==
    IF pred.kind = "generic" THEN GenericLines
    ELSE IF pred.kind = "readme" THEN ReadmeLines
    ELSE CargoLockLines

TextsOf(pred) == {JoinLines(q) : q \in SeqsUpTo(LinesOf(pred), MaxLines)}

DiffIdle == [pc |-> "idle"]
RebuildIdle == [pc |-> "idle"]
RaceIdle == [pc |-> "idle"]
SignIdle == [pc |-> "idle"]
CallIdle == [pc |-> "idle"]
BumpIdle == [pc |-> "idle"]

\* No repository and no run: the state of the orchestrator while a pure
\* function is examined on its own.
RunIdle ==
    /\ in_repo = FALSE
    /\ HEAD = [kind |-> "symbolic", name |-> "refs/heads/main"]
    /\ branch_ref = [kind |-> "none"]
    /\ objects = {}
    /\ index = {}
    /\ worktree = <<>>
    /\ config = <<>>
    /\ args = <<>>
    /\ pc = "idle"
    /\ locals = <<>>
    /\ result = "idle"
    /\ log = <<>>
    /\ before = <<>>

(***************************************************************************)
(* The classifier as a state machine: one pair of texts, one predicate.    *)
(***************************************************************************)
\* A manifest edited in two places, and a predicate that holds exactly for
\* the lines with the keyword: neither version string occurs in the texts.
ExampleBase ==
    <<"a", "\n">> \o KwVersion \o <<"=", "1", "\n", "b", "\n">>
ExampleWorking ==
    <<"a", "2", "\n">> \o KwVersion \o <<"=", "2", "\n", "b", "\n">>
ExamplePred == [kind |-> "generic", crate_name |-> CrateName,
                old_version |-> <<"8">>, new_version |-> <<"9">>]

InitDiff ==
    /\ \/ \E pred \in {GenericPred, ReadmePred, CargoLockPred} :
            \E head_content \in TextsOf(pred), working_content \in TextsOf(pred) :
               diff = [pc |-> "ready", pred |-> pred,
                       head_content |-> head_content,
                       working_content |-> working_content]
       \/ diff = [pc |-> "ready", pred |-> ExamplePred,
                  head_content |-> ExampleBase, working_content |-> ExampleWorking]
    /\ rebuild = RebuildIdle
    /\ race = RaceIdle
    /\ sign = SignIdle
    /\ call = CallIdle
    /\ bump_run = BumpIdle
    /\ RunIdle

\* has_non_*_changes and apply_*_hunks on the same pair of texts: both walk
\* the same change list.
ClassifyAndMerge ==
    /\ diff.pc = "ready"
    /\ \E changes \in iter_all_changes(diff.head_content, diff.working_content) :
          diff' = [pc |-> "done", pred |-> diff.pred,
                   head_content |-> diff.head_content,
                   working_content |-> diff.working_content,
                   changes |-> changes,
                   has_other_changes |-> has_non_relevant_changes(changes, diff.pred),
                   merged |-> apply_hunks(changes, diff.pred)]
    /\ UNCHANGED <<call, bump_run, rebuild, race, sign, repo_vars, run_vars>>

NextDiff == ClassifyAndMerge

SpecDiff == InitDiff /\ [][NextDiff]_vars

(***************************************************************************)
(* The tree rebuild as a state machine: one base tree, one update list.    *)
(***************************************************************************)
OldManifestBlob == Blob(<<"v", "=", "1", "\n">>)
ReadmeBlob == Blob(<<"r", "\n">>)
LibBlob == Blob(<<"l", "\n">>)
NewBlobs == {Blob(<<"v", "=", "2", "\n">>), Blob(<<"n", "\n">>)}

\* Root entries a base tree is made of: three files, a directory with one
\* file, and a directory holding a nested crate (crates/foo/Cargo.toml).
RootEntries ==
    { Entry("blob", "Cargo.toml", OldManifestBlob),
      Entry("blob", "README.md", ReadmeBlob),
      Entry("exe", "notes.txt", ReadmeBlob),
      Entry("tree", "src", Tree(<<Entry("blob", "lib.rs", LibBlob)>>)),
      Entry("tree", "crates",
            Tree(<<Entry("tree", "foo",
                         Tree(<<Entry("blob", "Cargo.toml", OldManifestBlob)>>))>>)) }

RECURSIVE SeqOfSet(_)
SeqOfSet(S) ==
    IF S = {} THEN <<>>
    ELSE LET x == CHOOSE y \in S : TRUE IN <<x>> \o SeqOfSet(S \ {x})

\* A stored tree is sorted.
BaseTrees == {Tree(SortEntries(SeqOfSet(S))) : S \in SUBSET RootEntries}

UpdatePaths ==
    { <<"Cargo.toml">>, <<"README.md">>, <<"Cargo.lock">>,
      <<"crates", "foo", "Cargo.toml">> }

InitTree ==
    /\ \E head_tree \in BaseTrees :
         \E file_updates \in SeqsUpTo(UpdatePaths \X NewBlobs, MaxUpdates) :
            rebuild = [pc |-> "ready", head_tree |-> head_tree,
                       file_updates |-> file_updates]
    /\ diff = DiffIdle
    /\ race = RaceIdle
    /\ sign = SignIdle
    /\ call = CallIdle
    /\ bump_run = BumpIdle
    /\ RunIdle

RebuildTree ==
    /\ rebuild.pc = "ready"
    /\ rebuild' = [pc |-> "done", head_tree |-> rebuild.head_tree,
                   file_updates |-> rebuild.file_updates,
                   tree_id |-> update_tree_with_files(rebuild.head_tree,
                                                      rebuild.file_updates)]
    /\ UNCHANGED <<call, bump_run, diff, race, sign, repo_vars, run_vars>>

NextTree == RebuildTree

SpecTree == InitTree /\ [][NextTree]_vars

(***************************************************************************)
(* commit.rs and signing.rs: the pure parts of one run.                    *)
(***************************************************************************)
NoCommit == [kind |-> "none"]
NoTree == [kind |-> "none"]
Unset == [set |-> FALSE]
Set(value) == [set |-> TRUE, value |-> value]

Commit(tree, parents, author, committer, message, extra_headers) ==
    [kind |-> "commit", tree |-> tree, parents |-> parents, author |-> author,
     committer |-> committer, message |-> message, extra_headers |-> extra_headers]

\* A write that is acknowledged and lost.
write_object_lost(store, object) == store

\* repo.write_object: the store afterwards.
write_object(store, object) == store \cup {object}

\* repo.head() followed by id(): the object HEAD resolves to, NoCommit on an
\* unborn branch.
head_commit(head, branch) ==
    IF head.kind = "detached" THEN head.target ELSE branch

\* A HEAD that is always taken for the reference of the branch.
try_into_referent_of_any_head(head) == Set("refs/heads/main")

\* commit.rs 740-744, try_into_referent: the reference HEAD names, none when
\* HEAD is detached.
try_into_referent(head) ==
    IF head.kind = "symbolic" THEN Set(head.name) ELSE Unset

\* verify_version_changes: "ok", or the error it returns.
verify_version_changes(head_tree, relative_path, current_content, old_version, new_version) ==
    LET entry == lookup_entry_by_path(head_tree, relative_path) IN
    IF entry # NoEntry
    THEN IF entry.mode = "tree" THEN "Tree entry is not a blob"
         ELSE IF Contains(entry.oid.data, old_version) /\ Contains(current_content, new_version)
              THEN "ok"
              ELSE "No version-related changes found"
    ELSE IF Contains(current_content, KwVersion) /\ Contains(current_content, new_version)
         THEN "ok"
         ELSE "No version-related changes found"

\* get_head_content: the content of the file in HEAD, or the error.
get_head_content(head_tree, relative_path) ==
    LET entry == lookup_entry_by_path(head_tree, relative_path) IN
    IF entry = NoEntry THEN [ok |-> FALSE, err |-> "File does not exist in HEAD"]
    ELSE IF entry.mode = "tree" THEN [ok |-> FALSE, err |-> "Tree entry is not a blob"]
    ELSE [ok |-> TRUE, content |-> entry.oid.data]

\* The staging decision (commit.rs 316-330, 350-395): the working content
\* when every changed line is relevant, the filtered content otherwise.
staged_content(changes, working_content, pred) ==
    IF has_non_relevant_changes(changes, pred)
    THEN apply_hunks(changes, pred)
    ELSE working_content

\* The predicate of an additional file with HEAD content, by file type.
FilePred(file_type, crate_name, old_version, new_version) ==
    [kind |-> IF file_type = "Readme" THEN "readme" ELSE "cargo_lock",
     crate_name |-> crate_name, old_version |-> old_version, new_version |-> new_version]

\* The README staged whole, whatever has changed in it.
content_to_commit_readme_unfiltered(file, changes, crate_name, old_version, new_version) ==
    IF file.head_content.set /\ file.file_type = "CargoLock"
    THEN staged_content(changes, file.working_content,
                        FilePred(file.file_type, crate_name, old_version, new_version))
    ELSE file.working_content

\* content_to_commit of one additional file (commit.rs 349-400); changes is
\* the change list of its HEAD content and its working content.
content_to_commit(file, changes, crate_name, old_version, new_version) ==
    IF file.head_content.set /\ file.file_type \in {"Readme", "CargoLock"}
    THEN staged_content(changes, file.working_content,
                        FilePred(file.file_type, crate_name, old_version, new_version))
    ELSE file.working_content

\* A fallback identity in place of the error.
get_signature_with_fallback(cfg, now) ==
    [ok |-> TRUE,
     signature |-> [name |-> IF cfg.user_name.set THEN cfg.user_name.value
                             ELSE <<"U", "n", "k", "n", "o", "w", "n">>,
                    email |-> IF cfg.user_email.set THEN cfg.user_email.value
                              ELSE <<"u", "@", "l", "o", "c", "a", "l">>,
                    time |-> [seconds |-> now, offset |-> 0]]]

\* The identity with the time in the zone one hour east of UTC.
get_signature_with_local_offset(cfg, now) ==
    IF ~cfg.user_name.set
    THEN [ok |-> FALSE, err |-> "Git config 'user.name' is not set"]
    ELSE IF ~cfg.user_email.set
    THEN [ok |-> FALSE, err |-> "Git config 'user.email' is not set"]
    ELSE [ok |-> TRUE,
          signature |-> [name |-> cfg.user_name.value, email |-> cfg.user_email.value,
                         time |-> [seconds |-> now, offset |-> 60]]]

\* get_signature_from_config: the identity, or the error; no fallback.
get_signature_from_config(cfg, now) ==
    IF ~cfg.user_name.set
    THEN [ok |-> FALSE, err |-> "Git config 'user.name' is not set"]
    ELSE IF ~cfg.user_email.set
    THEN [ok |-> FALSE, err |-> "Git config 'user.email' is not set"]
    ELSE [ok |-> TRUE,
          signature |-> [name |-> cfg.user_name.value, email |-> cfg.user_email.value,
                         time |-> [seconds |-> now, offset |-> 0]]]

\* read_signing_config: commit.gpgsign read as a boolean (anything that is
\* not a boolean counts as false), gpg.format ("ssh" unless "openpgp"),
\* user.signingkey.
read_signing_config(cfg) ==
    [enabled |-> (cfg.gpgsign = "true"),
     format |-> IF cfg.format = "openpgp" THEN "Gpg" ELSE "Ssh",
     signing_key |-> cfg.signingkey]

\* The decimal digits, by value.
Digits == <<"0", "1", "2", "3", "4", "5", "6", "7", "8", "9">>

\* to_string of a number that is not negative: its decimal digits.
RECURSIVE NatToString(_)
NatToString(n) ==
    IF n < 10 THEN <<Digits[n + 1]>>
    ELSE NatToString(n \div 10) \o <<Digits[(n % 10) + 1]>>

\* i64::to_string, i32::to_string.
int_to_string(n) == IF n < 0 THEN <<"-">> \o NatToString(-n) ELSE NatToString(n)

\* format!("{:02}", n) of a number that is not negative: padded with a zero
\* to two digits, longer numbers in full.
Pad2(n) == IF n < 10 THEN <<"0">> \o NatToString(n) ELSE NatToString(n)

\* ObjectId::to_string: the hexadecimal digits of the id.  The id of an
\* object is the object in this model, and its digits are one token that
\* holds no space and no line feed and differs for different objects.
id_to_string(id) == <<ToString(id)>>

\* The offset written with the sign of the number only.
format_offset_unpadded(offset_minutes) ==
    <<IF offset_minutes >= 0 THEN "+" ELSE "-">>
       \o NatToString((IF offset_minutes >= 0 THEN offset_minutes ELSE -offset_minutes) \div 60)
       \o NatToString((IF offset_minutes >= 0 THEN offset_minutes ELSE -offset_minutes) % 60)

\* write_signature, signing.rs 481-487: format!("{}{:02}{:02}", sign, hours,
\* minutes) of the offset, which the function takes for minutes.
format_offset(offset_minutes) ==
    LET Field(sign_char, abs_offset) ==
            <<sign_char>> \o Pad2(abs_offset \div 60) \o Pad2(abs_offset % 60)
    IN Field(IF offset_minutes >= 0 THEN "+" ELSE "-",
             IF offset_minutes >= 0 THEN offset_minutes ELSE -offset_minutes)

\* write_signature: what it appends to the buffer.
write_signature(sig) ==
    sig.name \o <<" ", "<">> \o sig.email \o <<">", " ">>
       \o int_to_string(sig.time.seconds) \o <<" ">> \o format_offset(sig.time.offset)

\* The payload without the line of the parent.
build_commit_payload_without_parent(tree_id, parent_id, author, committer, message) ==
    <<"t", "r", "e", "e", " ">> \o id_to_string(tree_id) \o <<"\n">>
       \o <<"a", "u", "t", "h", "o", "r", " ">> \o write_signature(author) \o <<"\n">>
       \o <<"c", "o", "m", "m", "i", "t", "t", "e", "r", " ">>
       \o write_signature(committer) \o <<"\n">>
       \o <<"\n">> \o message

\* build_commit_payload: the bytes of the unsigned commit.
build_commit_payload(tree_id, parent_id, author, committer, message) ==
    <<"t", "r", "e", "e", " ">> \o id_to_string(tree_id) \o <<"\n">>
       \o <<"p", "a", "r", "e", "n", "t", " ">> \o id_to_string(parent_id) \o <<"\n">>
       \o <<"a", "u", "t", "h", "o", "r", " ">> \o write_signature(author) \o <<"\n">>
       \o <<"c", "o", "m", "m", "i", "t", "t", "e", "r", " ">>
       \o write_signature(committer) \o <<"\n">>
       \o <<"\n">> \o message

\* str::ends_with(suffix).
EndsWith(s, suffix) ==
    /\ Len(s) >= Len(suffix)
    /\ SubSeq(s, Len(s) - Len(suffix) + 1, Len(s)) = suffix

PubSuffix == <<".", "p", "u", "b">>

\* str::trim_end_matches(".pub"): every trailing ".pub" removed.
RECURSIVE trim_end_matches_pub(_)
trim_end_matches_pub(s) ==
    IF EndsWith(s, PubSuffix)
    THEN trim_end_matches_pub(SubSeq(s, 1, Len(s) - Len(PubSuffix)))
    ELSE s

\* A file of the key directory: missing, a public key, a private key or an
\* encrypted private key; keys carry their fingerprint.
MissingFile == [kind |-> "missing"]
KeyFile(kind, fingerprint) == [kind |-> kind, fingerprint |-> fingerprint]
FileAt(files, path) == IF path \in DOMAIN files THEN files[path] ELSE MissingFile

\* An identity held by the agent.
Identity(fingerprint, comment) == [fingerprint |-> fingerprint, comment |-> comment]

\* The armoured SSH signature over a payload, made with the key of the given
\* fingerprint by the agent or from the key file.
SshSig(fingerprint, payload, by) ==
    [pem |-> "SSH SIGNATURE", namespace |-> "git", hash_alg |-> "sha512",
     key |-> fingerprint, signed |-> payload, by |-> by]

\* find_matching_identity, signing.rs 270-288: the fingerprint of the public
\* key file when signing_key looks like a path and the file can be read.
target_fingerprint(signing_key, files) ==
    IF EndsWith(signing_key, PubSuffix) \/ Contains(signing_key, <<"/">>)
       \/ Contains(signing_key, <<"\\">>)
    THEN LET pub_key_path == IF EndsWith(signing_key, PubSuffix) THEN signing_key
                             ELSE signing_key \o PubSuffix
         IN IF FileAt(files, pub_key_path).kind = "public"
            THEN Set(FileAt(files, pub_key_path).fingerprint)
            ELSE Unset
    ELSE Unset

\* signing.rs 304-321: the identity matches by fingerprint, by fingerprint
\* string or by comment.
IdentityMatches(identity, signing_key, target) ==
    \/ target.set /\ identity.fingerprint = target.value
    \/ Contains(identity.fingerprint, signing_key)
    \/ Contains(signing_key, identity.fingerprint)
    \/ /\ identity.comment # <<>>
       /\ \/ Contains(identity.comment, signing_key)
          \/ Contains(signing_key, identity.comment)

\* The error names the key that was asked for and no key of the agent.
find_matching_identity_listing_nothing(identities, signing_key, files) ==
    LET FirstOf(target, matching) ==
            IF matching # {}
            THEN [ok |-> TRUE,
                  identity_idx |-> CHOOSE i \in matching : \A k \in matching : i <= k]
            ELSE [ok |-> FALSE,
                  err |-> [msg |-> "No matching SSH key found in agent",
                           signing_key |-> signing_key, available_keys |-> <<>>]]
        Matching(target) == {i \in 1..Len(identities) :
                                IdentityMatches(identities[i], signing_key, target)}
        Find(target) == FirstOf(target, Matching(target))
    IN Find(target_fingerprint(signing_key, files))

\* find_matching_identity: the first identity that matches, or the error
\* with the keys the agent offers (the comment, the fingerprint when the
\* comment is empty).
find_matching_identity(identities, signing_key, files) ==
    LET FirstOf(target, matching) ==
            IF matching # {}
            THEN [ok |-> TRUE,
                  identity_idx |-> CHOOSE i \in matching : \A k \in matching : i <= k]
            ELSE [ok |-> FALSE,
                  err |-> [msg |-> "No matching SSH key found in agent",
                           signing_key |-> signing_key,
                           available_keys |->
                              [i \in 1..Len(identities) |->
                                 IF identities[i].comment = <<>>
                                 THEN identities[i].fingerprint
                                 ELSE identities[i].comment]]]
        Matching(target) == {i \in 1..Len(identities) :
                                IdentityMatches(identities[i], signing_key, target)}
        Find(target) == FirstOf(target, Matching(target))
    IN Find(target_fingerprint(signing_key, files))

\* sign_with_ssh_agent: the signature made by the agent, or the error of the
\* first step that fails.
sign_with_ssh_agent(signing_key, payload, agent, files) ==
    IF ~agent.auth_sock
    THEN [ok |-> FALSE, err |-> [msg |-> "SSH_AUTH_SOCK environment variable not set"]]
    ELSE IF ~agent.connects
    THEN [ok |-> FALSE, err |-> [msg |-> "Failed to connect to SSH agent"]]
    ELSE IF ~agent.lists
    THEN [ok |-> FALSE, err |-> [msg |-> "Failed to list SSH agent identities"]]
    ELSE LET SignWith(found) ==
                 IF ~found.ok THEN [ok |-> FALSE, err |-> found.err]
                 ELSE IF ~agent.signs
                 THEN [ok |-> FALSE, err |-> [msg |-> "SSH agent signing failed"]]
                 ELSE [ok |-> TRUE,
                       sig |-> SshSig(agent.identities[found.identity_idx].fingerprint,
                                      payload, "agent")]
         IN SignWith(find_matching_identity(agent.identities, signing_key, files))

\* sign_with_ssh_file: the signature made with the private key file, the
\* path of which is signing_key without ".pub".
sign_with_ssh_file(signing_key, payload, files) ==
    LET private_key_path == trim_end_matches_pub(signing_key)
        private_key == FileAt(files, private_key_path)
    IN IF private_key.kind \notin {"private", "encrypted"}
       THEN [ok |-> FALSE, err |-> [msg |-> "Failed to read SSH private key"]]
       ELSE IF private_key.kind = "encrypted"
       THEN [ok |-> FALSE, err |-> [msg |-> "SSH key is encrypted"]]
       ELSE [ok |-> TRUE, sig |-> SshSig(private_key.fingerprint, payload, "file")]

\* sign_with_ssh: the agent first, the key file when the agent fails.
sign_with_ssh(signing_key, payload, agent, files) ==
    LET OrKeyFile(by_agent) ==
            IF by_agent.ok THEN by_agent
            ELSE sign_with_ssh_file(signing_key, payload, files)
    IN OrKeyFile(sign_with_ssh_agent(signing_key, payload, agent, files))

\* split_str(b"\n"): the pieces between the line feeds, the last one empty
\* when the text ends with a line feed.
RECURSIVE split_str(_)
split_str(text) ==
    LET n == FirstNewline(text) IN
    IF n = 0 THEN <<text>>
    ELSE <<SubSeq(text, 1, n - 1)>> \o split_str(SubSeq(text, n + 1, Len(text)))

\* The lines after the first, each with a space in front and a line feed
\* behind.
RECURSIVE ContinuationLines(_)
ContinuationLines(lines) ==
    IF lines = <<>> THEN <<>>
    ELSE <<" ">> \o Head(lines) \o <<"\n">> \o ContinuationLines(Tail(lines))

\* The commit writer on one extra header: "gix handles the extra_headers
\* value specially for multi-line content ... and will format continuation
\* lines itself (adding the leading space)".
header_field_multi_line(name, value) ==
    LET Written(lines) ==
            name \o <<" ">> \o Head(lines) \o <<"\n">> \o ContinuationLines(Tail(lines))
    IN Written(split_str(value))

\* The boundary lines of an armoured signature.
PemBegin == <<"-----BEGIN SSH SIGNATURE-----">>
PemEnd == <<"-----END SSH SIGNATURE-----">>

\* SshSig::to_pem(LineEnding::LF) of a signature of the model: the boundary
\* lines around one line that stands for the base64 text, each line ended
\* by a line feed.
to_pem(sig) ==
    PemBegin \o <<"\n">> \o <<ToString(sig)>> \o <<"\n">> \o PemEnd \o <<"\n">>

\* The commit writer on a time: the seconds, and the offset, which it takes
\* for seconds, as sign, hours and minutes.
time_write_to(time) ==
    LET Field(sign_char, abs_offset) ==
            <<sign_char>> \o Pad2(abs_offset \div 3600) \o Pad2((abs_offset % 3600) \div 60)
    IN int_to_string(time.seconds) \o <<" ">>
          \o Field(IF time.offset >= 0 THEN "+" ELSE "-",
                   IF time.offset >= 0 THEN time.offset ELSE -time.offset)

\* The commit writer on an author or committer.
signature_write_to(sig) ==
    sig.name \o <<" ", "<">> \o sig.email \o <<">", " ">> \o time_write_to(sig.time)

\* The commit writer on the extra headers, in their order.
RECURSIVE extra_headers_write_to(_)
extra_headers_write_to(headers) ==
    IF headers = <<>> THEN <<>>
    ELSE header_field_multi_line(<<Head(headers)[1]>>, to_pem(Head(headers)[2]))
            \o extra_headers_write_to(Tail(headers))

\* repo.write_object(gix::objs::Commit {..}), commit.rs 697-706: the bytes
\* of the commit object; encoding is None and writes nothing.
RECURSIVE parents_write_to(_)
parents_write_to(parents) ==
    IF parents = <<>> THEN <<>>
    ELSE <<"p", "a", "r", "e", "n", "t", " ">> \o id_to_string(Head(parents)) \o <<"\n">>
            \o parents_write_to(Tail(parents))

commit_write_to(commit) ==
    <<"t", "r", "e", "e", " ">> \o id_to_string(commit.tree) \o <<"\n">>
       \o parents_write_to(commit.parents)
       \o <<"a", "u", "t", "h", "o", "r", " ">> \o signature_write_to(commit.author)
       \o <<"\n">>
       \o <<"c", "o", "m", "m", "i", "t", "t", "e", "r", " ">>
       \o signature_write_to(commit.committer) \o <<"\n">>
       \o extra_headers_write_to(commit.extra_headers)
       \o <<"\n">> \o commit.message

\* The signature as the example of the doc comment shows it: every line
\* after the first indented by one space.
format_signature_for_header_indenting(signature) ==
    LET Indented(lines) ==
            Head(lines)
               \o JoinLines([i \in 1..(Len(lines) - 1) |-> <<"\n", " ">> \o lines[i + 1]])
    IN Indented(split_str(signature))

\* format_signature_for_header, signing.rs 411-417: signature.to_vec().
format_signature_for_header(signature) == signature

\* sign_commit_payload: Ok(None), Ok(Some(signature)) or Err.
sign_commit_payload(signing_config, payload, agent, files) ==
    IF ~signing_config.enabled THEN [status |-> "none"]
    ELSE IF ~signing_config.signing_key.set
    THEN [status |-> "err",
          err |-> [msg |-> "Commit signing is enabled but no signing key is configured"]]
    ELSE IF signing_config.format = "Ssh"
    THEN LET Outcome(r) ==
                 IF r.ok
                 THEN [status |-> "some", signature |-> format_signature_for_header(r.sig)]
                 ELSE [status |-> "err", err |-> r.err]
         IN Outcome(sign_with_ssh(signing_config.signing_key.value, payload, agent, files))
    ELSE [status |-> "err", err |-> [msg |-> "GPG signing is not yet implemented"]]

\* A signing failure downgraded to a warning: the commit goes out unsigned.
extra_headers_unsigned_on_failure(signing_config, payload, agent, files) ==
    IF signing_config.enabled
    THEN LET Headers(signed) ==
                 IF signed.status = "some"
                 THEN [ok |-> TRUE, headers |-> << <<"gpgsig", signed.signature>> >>]
                 ELSE [ok |-> TRUE, headers |-> <<>>]
         IN Headers(sign_commit_payload(signing_config, payload, agent, files))
    ELSE [ok |-> TRUE, headers |-> <<>>]

\* The extra headers of the commit (create_commit 671-694): the gpgsig header
\* when signing is enabled and succeeded, none when signing is disabled, an
\* error when signing is enabled and failed.
extra_headers(signing_config, payload, agent, files) ==
    IF signing_config.enabled
    THEN LET Headers(signed) ==
                 IF signed.status = "some"
                 THEN [ok |-> TRUE, headers |-> << <<"gpgsig", signed.signature>> >>]
                 ELSE IF signed.status = "none"
                 THEN [ok |-> TRUE, headers |-> <<>>]
                 ELSE [ok |-> FALSE, err |-> "Failed to sign commit"]
         IN Headers(sign_commit_payload(signing_config, payload, agent, files))
    ELSE [ok |-> TRUE, headers |-> <<>>]

\* format!("chore(version): bump {} -> {}", old_version, new_version)
commit_message(old_version, new_version) ==
    << "c", "h", "o", "r", "e", "(", "v", "e", "r", "s", "i", "o", "n", ")", ":",
       " ", "b", "u", "m", "p", " " >> \o old_version \o << " ", "-", ">", " " >>
       \o new_version

\* create_commit up to the write: the commit object to write, or the error.
create_commit(cfg, tree_id, parent_id, old_version, new_version, now, agent, files) ==
    LET message == commit_message(old_version, new_version)
        identity == get_signature_from_config(cfg, now)
    IN IF ~identity.ok THEN [ok |-> FALSE, err |-> identity.err]
       ELSE LET author == identity.signature
                committer == author
                signing_config == read_signing_config(cfg)
                payload == build_commit_payload(tree_id, parent_id, author, committer, message)
                Made(headers) ==
                    IF ~headers.ok THEN [ok |-> FALSE, err |-> headers.err]
                    ELSE [ok |-> TRUE,
                          commit |-> Commit(tree_id, <<parent_id>>, author, committer,
                                            message, headers.headers)]
            IN Made(extra_headers(signing_config, payload, agent, files))

\* The tree of HEAD added to the index that is there, stale entries kept.
reset_index_keeping_staged(head, branch) ==
    index \cup IndexFromTree(head_commit(head, branch).tree, <<>>)

\* reset_index_to_head: the index written, built from the tree of the commit
\* HEAD resolves to; nothing of the old index is kept.
reset_index_to_head(head, branch) == IndexFromTree(head_commit(head, branch).tree, <<>>)

(***************************************************************************)
(* The repository and the arguments of one run.                            *)
(***************************************************************************)
ManifestHead == <<"v", "=", "1", "\n", "d", "=", "o", "\n">>

\* Working contents of the manifest: the version bumped, the version bumped
\* and another field edited, nothing changed, and a new manifest with the
\* keyword.
ManifestWorkings ==
    { <<"v", "=", "2", "\n", "d", "=", "o", "\n">>,
      <<"v", "=", "2", "\n", "d", "=", "n", "\n">>,
      ManifestHead,
      KwVersion \o <<"=", "2", "\n">> }

LockHead ==
    <<"v", "e", "r", "s", "i", "o", "n", "=", "\"", "1", "\"", "\n",
      "v", "e", "r", "s", "i", "o", "n", "=", "\"", "3", "\"", "\n">>
LockBumped ==
    <<"v", "e", "r", "s", "i", "o", "n", "=", "\"", "2", "\"", "\n",
      "v", "e", "r", "s", "i", "o", "n", "=", "\"", "3", "\"", "\n">>
LockBumpedAndUpdated ==
    <<"v", "e", "r", "s", "i", "o", "n", "=", "\"", "2", "\"", "\n",
      "v", "e", "r", "s", "i", "o", "n", "=", "\"", "4", "\"", "\n">>
ReadmeHead == <<"m", "-", "c", "=", "\"", "1", "\"", "\n", "t", "\n">>
ReadmeWorking == <<"m", "-", "c", "=", "\"", "2", "\"", "\n", "T", "\n">>
LibHead == <<"l", "\n">>
LibWorking == <<"w", "\n">>

RootManifest == <<"Cargo.toml">>
NestedManifest == <<"crates", "foo", "Cargo.toml">>
UntrackedManifest == <<"crates", "bar", "Cargo.toml">>
LockPath == <<"Cargo.lock">>
ReadmePath == <<"README.md">>
LibPath == <<"src", "lib.rs">>
ManifestPaths == {RootManifest, NestedManifest, UntrackedManifest}
WorkPaths == ManifestPaths \cup {LockPath, ReadmePath, LibPath}

\* The tree of the HEAD commit.
HeadTree ==
    Tree(<< Entry("blob", "Cargo.lock", Blob(LockHead)),
            Entry("blob", "Cargo.toml", Blob(ManifestHead)),
            Entry("blob", "README.md", Blob(ReadmeHead)),
            Entry("tree", "crates",
                  Tree(<<Entry("tree", "foo",
                               Tree(<<Entry("blob", "Cargo.toml", Blob(ManifestHead))>>))>>)),
            Entry("tree", "src", Tree(<<Entry("blob", "lib.rs", Blob(LibHead))>>)) >>)

Committer == [name |-> <<"T">>, email |-> <<"t", "@", "x">>,
              time |-> [seconds |-> 0, offset |-> 0]]

HeadCommit == Commit(HeadTree, <<>>, Committer, Committer, <<"i", "n", "i", "t">>, <<>>)

\* A tree and everything below it.
RECURSIVE TreeClosure(_)
TreeClosure(tree) ==
    {tree} \cup UNION { IF tree.entries[i].mode = "tree"
                        THEN TreeClosure(tree.entries[i].oid)
                        ELSE {tree.entries[i].oid}
                      : i \in 1..Len(tree.entries) }

InitialObjects == {HeadCommit} \cup TreeClosure(HeadTree)

\* The index before the run: equal to HEAD, with a new file staged, or with
\* an edit of README.md staged.
CleanIndex == IndexFromTree(HeadTree, <<>>)
StaleIndexes ==
    { CleanIndex,
      CleanIndex \cup {[path |-> <<"notes.txt">>, mode |-> "blob", oid |-> Blob(<<"s", "\n">>)]},
      (CleanIndex \ {[path |-> ReadmePath, mode |-> "blob", oid |-> Blob(ReadmeHead)]})
         \cup {[path |-> ReadmePath, mode |-> "blob", oid |-> Blob(ReadmeWorking)]} }

AdditionalFile(path, working_content, head_content, file_type) ==
    [path |-> path, working_content |-> working_content,
     head_content |-> head_content, file_type |-> file_type]

AdditionalFileLists ==
    { <<>>,
      <<AdditionalFile(LockPath, LockBumped, Set(LockHead), "CargoLock")>>,
      <<AdditionalFile(LockPath, LockBumpedAndUpdated, Set(LockHead), "CargoLock")>>,
      <<AdditionalFile(LockPath, LockBumpedAndUpdated, Unset, "CargoLock")>>,
      <<AdditionalFile(ReadmePath, ReadmeWorking, Set(ReadmeHead), "Other")>>,
      <<AdditionalFile(<<"notes.txt">>, <<"s", "\n">>, Unset, "Other")>>,
      <<AdditionalFile(LockPath, LockBumped, Set(LockHead), "CargoLock"),
        AdditionalFile(ReadmePath, ReadmeWorking, Set(ReadmeHead), "Readme")>> }

\* user.name / user.email: both set, or one of them missing.
Identities ==
    { [user_name |-> Set(<<"T">>), user_email |-> Set(<<"t", "@", "x">>)],
      [user_name |-> Unset, user_email |-> Set(<<"t", "@", "x">>)],
      [user_name |-> Set(<<"T">>), user_email |-> Unset] }

\* commit.gpgsign, gpg.format, user.signingkey.
SigningKey == <<"k", ".", "p", "u", "b">>
SigningSettings ==
    { [gpgsign |-> "unset", format |-> "unset", signingkey |-> Unset],
      [gpgsign |-> "false", format |-> "ssh", signingkey |-> Set(SigningKey)],
      [gpgsign |-> "junk", format |-> "ssh", signingkey |-> Set(SigningKey)],
      [gpgsign |-> "true", format |-> "unset", signingkey |-> Set(SigningKey)],
      [gpgsign |-> "true", format |-> "ssh", signingkey |-> Unset],
      [gpgsign |-> "true", format |-> "openpgp", signingkey |-> Set(SigningKey)],
      [gpgsign |-> "true", format |-> "junk", signingkey |-> Set(SigningKey)] }

Configs ==
    { [user_name |-> id.user_name, user_email |-> id.user_email,
       gpgsign |-> sg.gpgsign, format |-> sg.format, signingkey |-> sg.signingkey]
      : id \in Identities, sg \in SigningSettings }

\* The files at the paths a signing key stands for: k.pub and k.
PrivateKeyPath == <<"k">>
Fingerprint == <<"S", ":", "K">>
OtherFingerprint == <<"S", ":", "O">>

NoKeys == [p \in {SigningKey, PrivateKeyPath} |-> MissingFile]

KeyDirectories ==
    { [p \in {SigningKey, PrivateKeyPath} |-> IF p = SigningKey THEN pub ELSE priv]
      : pub \in {MissingFile, KeyFile("public", Fingerprint)},
        priv \in {MissingFile, KeyFile("encrypted", Fingerprint),
                  KeyFile("private", Fingerprint)} }

\* The agent: the socket variable, whether the agent answers, the identities
\* it holds, and whether it signs when asked.
Agent(auth_sock, connects, lists, identities, signs) ==
    [auth_sock |-> auth_sock, connects |-> connects, lists |-> lists,
     identities |-> identities, signs |-> signs]

NoAgent == Agent(FALSE, FALSE, FALSE, <<>>, FALSE)

OtherIdentity == Identity(OtherFingerprint, <<"o">>)
NamelessIdentity == Identity(OtherFingerprint, <<>>)
OwnIdentity == Identity(Fingerprint, <<"c">>)

Agents ==
    { NoAgent,
      Agent(TRUE, FALSE, FALSE, <<>>, FALSE),
      Agent(TRUE, TRUE, FALSE, <<>>, FALSE),
      Agent(TRUE, TRUE, TRUE, <<>>, TRUE),
      Agent(TRUE, TRUE, TRUE, <<OtherIdentity, NamelessIdentity>>, TRUE),
      Agent(TRUE, TRUE, TRUE, <<OtherIdentity, OwnIdentity>>, FALSE),
      Agent(TRUE, TRUE, TRUE, <<OtherIdentity, OwnIdentity>>, TRUE) }

\* SystemTime::now() at the time of the commit.
ClockValues == {1000, 2000}

File(content) == [present |-> TRUE, content |-> content]
NoFile == [present |-> FALSE, content |-> <<>>]

\* The working copy: the manifest of the run has the given state, the other
\* tracked files are as in HEAD except for work in progress in src/lib.rs.
WorkTree(manifest_path, manifest_file, files) ==
    [p \in WorkPaths |->
       IF p = manifest_path THEN manifest_file
       ELSE IF \E i \in 1..Len(files) : files[i].path = p
            THEN File(files[CHOOSE i \in 1..Len(files) : files[i].path = p].working_content)
       ELSE IF p = LibPath THEN File(LibWorking)
       ELSE IF p = LockPath THEN File(LockHead)
       ELSE IF p = ReadmePath THEN File(ReadmeHead)
       ELSE IF p = UntrackedManifest THEN NoFile
       ELSE File(ManifestHead)]

EmptyLocals ==
    [relative_path |-> <<>>, current_content |-> <<>>, head_commit_id |-> NoCommit,
     head_tree |-> NoTree, head_content |-> <<>>, file_updates |-> <<>>,
     next_file |-> 1, tree_id |-> NoTree, commit_id |-> NoCommit]

\* The states a repository can be in when the run starts.
RepoStates ==
    { [in_repo |-> FALSE, HEAD |-> [kind |-> "symbolic", name |-> "refs/heads/main"],
       branch_ref |-> NoCommit, objects |-> {}, index |-> {}],
      [in_repo |-> TRUE, HEAD |-> [kind |-> "symbolic", name |-> "refs/heads/main"],
       branch_ref |-> NoCommit, objects |-> {}, index |-> {}],
      [in_repo |-> TRUE, HEAD |-> [kind |-> "symbolic", name |-> "refs/heads/main"],
       branch_ref |-> HeadTree, objects |-> InitialObjects, index |-> CleanIndex] }
    \cup
    { [in_repo |-> TRUE, HEAD |-> h, branch_ref |-> HeadCommit,
       objects |-> InitialObjects, index |-> ix]
      : h \in { [kind |-> "symbolic", name |-> "refs/heads/main"],
                [kind |-> "detached", target |-> HeadCommit] },
        ix \in StaleIndexes }

Init ==
    /\ diff = DiffIdle
    /\ rebuild = RebuildIdle
    /\ race = RaceIdle
    /\ sign = SignIdle
    /\ call = CallIdle
    /\ bump_run = BumpIdle
    /\ \E r \in RepoStates :
          /\ in_repo = r.in_repo
          /\ HEAD = r.HEAD
          /\ branch_ref = r.branch_ref
          /\ objects = r.objects
          /\ index = r.index
    /\ config \in Configs
    /\ \E manifest_path \in ManifestPaths,
          manifest_file \in {NoFile} \cup {File(c) : c \in ManifestWorkings},
          old_version \in {OldVersion, <<"9">>},
          files \in AdditionalFileLists :
          /\ args = [manifest_path |-> manifest_path, crate_name |-> CrateName,
                     old_version |-> old_version, new_version |-> NewVersion,
                     additional_files |-> files]
          /\ worktree = WorkTree(manifest_path, manifest_file, files)
    /\ pc = "start"
    /\ locals = EmptyLocals
    /\ result = "running"
    /\ log = <<>>
    /\ before = [HEAD |-> HEAD, branch_ref |-> branch_ref, index |-> index,
                 objects |-> objects]

(***************************************************************************)
(* commit_version_changes_with_files, step by step.  Every step that       *)
(* writes to the repository is an action of its own; a step that returns   *)
(* an error ends the run with that error.                                  *)
(***************************************************************************)
Fail(err) ==
    /\ pc' = "done"
    /\ result' = err
    /\ UNCHANGED <<locals, log>>

\* commit.rs 276-302: discover the repository, read the manifest from the
\* working copy, read HEAD, its commit and its tree.
OpenRepository ==
    /\ pc = "start"
    /\ IF ~in_repo THEN Fail("Not in a git repository")
       ELSE IF ~worktree[args.manifest_path].present THEN Fail("Failed to read manifest")
       ELSE IF head_commit(HEAD, branch_ref) = NoCommit
       THEN Fail("HEAD does not point to a commit")
       ELSE IF head_commit(HEAD, branch_ref).kind # "commit"
       THEN Fail("HEAD is not a commit")
       ELSE /\ pc' = "verify"
            /\ locals' = [locals EXCEPT
                            !.relative_path = args.manifest_path,
                            !.current_content = worktree[args.manifest_path].content,
                            !.head_commit_id = head_commit(HEAD, branch_ref),
                            !.head_tree = head_commit(HEAD, branch_ref).tree]
            /\ UNCHANGED <<result, log>>
    /\ UNCHANGED <<call, bump_run, diff, rebuild, race, sign, repo_vars, args, before>>

\* commit.rs 304-314: verify_version_changes, then get_head_content.
VerifyVersionChanges ==
    /\ pc = "verify"
    /\ LET verdict == verify_version_changes(locals.head_tree, locals.relative_path,
                                             locals.current_content,
                                             args.old_version, args.new_version)
           head == get_head_content(locals.head_tree, locals.relative_path)
       IN IF verdict # "ok" THEN Fail(verdict)
          ELSE IF ~head.ok THEN Fail(head.err)
          ELSE /\ pc' = "stage_manifest"
               /\ locals' = [locals EXCEPT !.head_content = head.content]
               /\ UNCHANGED <<result, log>>
    /\ UNCHANGED <<call, bump_run, diff, rebuild, race, sign, repo_vars, args, before>>

\* commit.rs 316-337: the staged content of the manifest and its blob.
StageManifest ==
    /\ pc = "stage_manifest"
    /\ \E changes \in iter_all_changes(locals.head_content, locals.current_content),
          io_ok \in BOOLEAN :
          LET pred == [kind |-> "generic", crate_name |-> args.crate_name,
                       old_version |-> args.old_version,
                       new_version |-> args.new_version]
              cargo_toml_blob_id == Blob(staged_content(changes, locals.current_content, pred))
          IN IF ~io_ok
             THEN Fail("Failed to write blob") /\ UNCHANGED objects
             ELSE /\ objects' = write_object(objects, cargo_toml_blob_id)
                  /\ locals' = [locals EXCEPT
                                  !.file_updates = <<<<locals.relative_path, cargo_toml_blob_id>>>>,
                                  !.next_file = 1]
                  /\ log' = Append(log, "blob")
                  /\ pc' = "stage_files"
                  /\ UNCHANGED result
    /\ UNCHANGED <<call, bump_run, diff, rebuild, race, sign, in_repo, HEAD, branch_ref, index, worktree, config,
                   args, before>>

\* commit.rs 340-404: one turn of the loop over the additional files.
StageAdditionalFile ==
    /\ pc = "stage_files"
    /\ locals.next_file <= Len(args.additional_files)
    /\ LET file == args.additional_files[locals.next_file]
           base == IF file.head_content.set THEN file.head_content.value ELSE <<>>
       IN \E changes \in iter_all_changes(base, file.working_content),
             io_ok \in BOOLEAN :
             LET blob_id == Blob(content_to_commit(file, changes, args.crate_name,
                                                   args.old_version, args.new_version))
             IN IF ~io_ok
                THEN Fail("Failed to write blob") /\ UNCHANGED objects
                ELSE /\ objects' = write_object(objects, blob_id)
                     /\ locals' = [locals EXCEPT
                                     !.file_updates = Append(@, <<file.path, blob_id>>),
                                     !.next_file = @ + 1]
                     /\ log' = Append(log, "blob")
                     /\ UNCHANGED <<pc, result>>
    /\ UNCHANGED <<call, bump_run, diff, rebuild, race, sign, in_repo, HEAD, branch_ref, index, worktree, config,
                   args, before>>

\* commit.rs 406-407: rebuild the tree of HEAD with the staged blobs.
UpdateTree ==
    /\ pc = "stage_files"
    /\ locals.next_file > Len(args.additional_files)
    /\ \E io_ok \in BOOLEAN :
          LET tree_id == update_tree_with_files(locals.head_tree, locals.file_updates)
          IN IF ~io_ok
             THEN Fail("Failed to write updated tree") /\ UNCHANGED objects
             ELSE /\ objects' = write_object(objects, tree_id)
                  /\ locals' = [locals EXCEPT !.tree_id = tree_id]
                  /\ log' = Append(log, "tree")
                  /\ pc' = "create_commit"
                  /\ UNCHANGED result
    /\ UNCHANGED <<call, bump_run, diff, rebuild, race, sign, in_repo, HEAD, branch_ref, index, worktree, config,
                   args, before>>

\* commit.rs 409-410 and 648-711: identity, signature, commit object.
CreateCommit ==
    /\ pc = "create_commit"
    /\ \E now \in ClockValues, agent \in Agents, files \in KeyDirectories,
          io_ok \in BOOLEAN :
          LET made == create_commit(config, locals.tree_id, locals.head_commit_id,
                                    args.old_version, args.new_version,
                                    now, agent, files)
          IN IF ~made.ok THEN Fail(made.err) /\ UNCHANGED objects
             ELSE IF ~io_ok THEN Fail("Failed to write commit object") /\ UNCHANGED objects
             ELSE /\ objects' = write_object(objects, made.commit)
                  /\ locals' = [locals EXCEPT !.commit_id = made.commit]
                  /\ log' = Append(log, "commit")
                  /\ pc' = "update_head"
                  /\ UNCHANGED result
    /\ UNCHANGED <<call, bump_run, diff, rebuild, race, sign, in_repo, HEAD, branch_ref, index, worktree, config,
                   args, before>>

\* The index reset done in the same step as the reference update, ahead of it.
UpdateHeadWithIndexReset ==
    /\ pc = "update_head"
    /\ \E io_ok \in BOOLEAN :
          IF ~try_into_referent(HEAD).set
          THEN /\ Fail("HEAD is not a reference (detached HEAD state)")
               /\ UNCHANGED <<branch_ref, index>>
          ELSE /\ index' = IndexFromTree(locals.commit_id.tree, <<>>)
               /\ IF ~io_ok
                  THEN Fail("Failed to update HEAD reference") /\ UNCHANGED branch_ref
                  ELSE /\ branch_ref' = locals.commit_id
                       /\ log' = log \o <<"index", "ref">>
                       /\ pc' = "reset_index"
                       /\ UNCHANGED <<locals, result>>
    /\ UNCHANGED <<call, bump_run, diff, rebuild, race, sign, in_repo, HEAD, objects, worktree, config,
                   args, before>>

\* commit.rs 412-413 and 738-753: move the branch HEAD refers to.
UpdateHead ==
    /\ pc = "update_head"
    /\ \E io_ok \in BOOLEAN :
          IF ~try_into_referent(HEAD).set
          THEN Fail("HEAD is not a reference (detached HEAD state)") /\ UNCHANGED branch_ref
          ELSE IF ~io_ok
          THEN Fail("Failed to update HEAD reference") /\ UNCHANGED branch_ref
          ELSE /\ branch_ref' = locals.commit_id
               /\ log' = Append(log, "ref")
               /\ pc' = "reset_index"
               /\ UNCHANGED <<locals, result>>
    /\ UNCHANGED <<call, bump_run, diff, rebuild, race, sign, in_repo, HEAD, objects, index, worktree, config,
                   args, before>>

\* A hard reset: the files of the tree of HEAD are checked out as well.
ResetIndexAndCheckout ==
    /\ pc = "reset_index"
    /\ \E io_ok \in BOOLEAN :
          IF ~io_ok
          THEN Fail("Failed to write index") /\ UNCHANGED <<index, worktree>>
          ELSE /\ index' = reset_index_to_head(HEAD, branch_ref)
               /\ worktree' =
                     [p \in WorkPaths |->
                        LET e == lookup_entry_by_path(head_commit(HEAD, branch_ref).tree, p)
                        IN IF e # NoEntry /\ e.mode # "tree"
                           THEN File(e.oid.data) ELSE worktree[p]]
               /\ log' = Append(log, "index")
               /\ pc' = "done"
               /\ result' = "ok"
               /\ UNCHANGED locals
    /\ UNCHANGED <<call, bump_run, diff, rebuild, race, sign, in_repo, HEAD, branch_ref, objects, config,
                   args, before>>

\* commit.rs 415-421 and 777-799: write the index of the tree of HEAD; the
\* working copy is not touched.
ResetIndex ==
    /\ pc = "reset_index"
    /\ \E io_ok \in BOOLEAN :
          IF ~io_ok
          THEN Fail("Failed to write index") /\ UNCHANGED index
          ELSE /\ index' = reset_index_to_head(HEAD, branch_ref)
               /\ log' = Append(log, "index")
               /\ pc' = "done"
               /\ result' = "ok"
               /\ UNCHANGED locals
    /\ UNCHANGED <<call, bump_run, diff, rebuild, race, sign, in_repo, HEAD, branch_ref, objects, worktree, config,
                   args, before>>

Next ==
    \/ OpenRepository
    \/ VerifyVersionChanges
    \/ StageManifest
    \/ StageAdditionalFile
    \/ UpdateTree
    \/ CreateCommit
    \/ UpdateHead
    \/ ResetIndex

Spec == Init /\ [][Next]_vars

(***************************************************************************)
(* The staging of a lock file with two packages: the target crate, bumped  *)
(* from old_version to new_version, and another package, updated from one  *)
(* version to another (commit.rs 373-395).                                 *)
(***************************************************************************)
LockVersions == {<<"1">>, <<"2">>, <<"3">>, <<"4">>, <<"5">>}

\* The bumps of the target crate.
LockBumps == {<<<<"1">>, <<"2">>>>, <<<<"2">>, <<"3">>>>}

OtherCrate == <<"x">>

\* name = "<name>" and version = "<version>", one line each.
PackageEntry(name, version) ==
    KwName \o <<" ", "=", " ", "\"">> \o name \o <<"\"", "\n">>
    \o KwVersion \o <<" ", "=", " ", "\"">> \o version \o <<"\"", "\n">>

\* A lock file with the target crate and the other package at the given
\* versions, in either order.
LockText(target_first, target_version, other_version) ==
    IF target_first
    THEN PackageEntry(CrateName, target_version) \o PackageEntry(OtherCrate, other_version)
    ELSE PackageEntry(OtherCrate, other_version) \o PackageEntry(CrateName, target_version)

InitLock ==
    /\ \E bump \in LockBumps, other_from \in LockVersions, other_to \in LockVersions,
          target_first \in BOOLEAN :
          /\ other_from # other_to
          /\ diff = [pc |-> "ready", target_first |-> target_first,
                     old_version |-> bump[1], new_version |-> bump[2],
                     other_from |-> other_from, other_to |-> other_to,
                     file |-> AdditionalFile(LockPath,
                                             LockText(target_first, bump[2], other_to),
                                             Set(LockText(target_first, bump[1], other_from)),
                                             "CargoLock"),
                     content_to_commit |-> <<>>]
    /\ rebuild = RebuildIdle
    /\ race = RaceIdle
    /\ sign = SignIdle
    /\ call = CallIdle
    /\ bump_run = BumpIdle
    /\ RunIdle

\* commit.rs 373-395: the content of the lock file that goes into the commit.
StageLockFile ==
    /\ diff.pc = "ready"
    /\ \E changes \in iter_all_changes(diff.file.head_content.value,
                                       diff.file.working_content) :
          diff' = [diff EXCEPT
                     !.pc = "done",
                     !.content_to_commit =
                        content_to_commit(diff.file, changes, CrateName,
                                          diff.old_version, diff.new_version)]
    /\ UNCHANGED <<call, bump_run, rebuild, race, sign, repo_vars, run_vars>>

NextLock == StageLockFile

SpecLock == InitLock /\ [][NextLock]_vars

(***************************************************************************)
(* Two runs of commit_version_changes_with_files on the same repository.   *)
(* Each run reads HEAD (commit.rs 292-302), builds its commit on top of    *)
(* the commit it read, and then update_head reads the branch again         *)
(* (738-744) and moves it (748-750).                                       *)
(***************************************************************************)
Procs == {1, 2}

RaceVersions == {<<"2">>, <<"3">>}

\* user.name and user.email set, signing not enabled.
RaceConfig ==
    [user_name |-> Set(<<"T">>), user_email |-> Set(<<"t", "@", "x">>),
     gpgsign |-> "unset", format |-> "unset", signingkey |-> Unset]

RaceStart(new_version, now) ==
    [pc |-> "start", new_version |-> new_version, now |-> now,
     head_commit_id |-> NoCommit, commit_id |-> NoCommit,
     ref_seen |-> NoCommit, result |-> "running"]

InitRace ==
    /\ diff = DiffIdle
    /\ rebuild = RebuildIdle
    /\ \E versions \in [Procs -> RaceVersions], clocks \in [Procs -> ClockValues] :
          race = [procs |-> [p \in Procs |-> RaceStart(versions[p], clocks[p])],
                  published |-> <<>>]
    /\ sign = SignIdle
    /\ call = CallIdle
    /\ bump_run = BumpIdle
    /\ in_repo = TRUE
    /\ HEAD = [kind |-> "symbolic", name |-> "refs/heads/main"]
    /\ branch_ref = HeadCommit
    /\ objects = InitialObjects
    /\ index = CleanIndex
    /\ worktree = <<>>
    /\ config = RaceConfig
    /\ args = <<>>
    /\ pc = "idle"
    /\ locals = <<>>
    /\ result = "idle"
    /\ log = <<>>
    /\ before = <<>>

\* The manifest of a run: the version line bumped, nothing else changed.
RaceManifest(new_version) == <<"v", "=">> \o new_version \o <<"\n", "d", "=", "o", "\n">>

\* commit.rs 292-302: the commit HEAD resolves to when the run starts.
RaceReadHead(p) ==
    /\ race.procs[p].pc = "start"
    /\ race' = [race EXCEPT !.procs[p].pc = "build",
                            !.procs[p].head_commit_id = head_commit(HEAD, branch_ref)]
    /\ UNCHANGED <<call, bump_run, diff, rebuild, sign, repo_vars, run_vars>>

\* commit.rs 304-410: the blob, the tree and the commit of the run, written
\* to the object store; the parent is the commit read at the start.
RaceWriteObjects(p) ==
    /\ race.procs[p].pc = "build"
    /\ LET me == race.procs[p]
           blob_id == Blob(RaceManifest(me.new_version))
           tree_id == update_tree_with_files(me.head_commit_id.tree,
                                             <<<<RootManifest, blob_id>>>>)
           made == create_commit(config, tree_id, me.head_commit_id,
                                 OldVersion, me.new_version, me.now,
                                 NoAgent, NoKeys)
       IN /\ objects' = write_object(write_object(write_object(objects, blob_id),
                                                  tree_id), made.commit)
          /\ race' = [race EXCEPT !.procs[p].pc = "update_head",
                                  !.procs[p].commit_id = made.commit]
    /\ UNCHANGED <<call, bump_run, diff, rebuild, sign, in_repo, HEAD, branch_ref, index, worktree, config,
                   run_vars>>

\* update_head, commit.rs 740-744: repo.head() resolved to the branch
\* reference, with the target the branch has at this moment.
RaceReadRef(p) ==
    /\ race.procs[p].pc = "update_head"
    /\ race' = [race EXCEPT !.procs[p].pc = "set_target",
                            !.procs[p].ref_seen = branch_ref]
    /\ UNCHANGED <<call, bump_run, diff, rebuild, sign, repo_vars, run_vars>>

\* update_head, commit.rs 748-750: set_target_id on the reference read by
\* update_head; the update expects the target that reference had when
\* update_head read it, not the commit read at the start of the run.
set_target_id(me) ==
    IF branch_ref = me.ref_seen
    THEN [ok |-> TRUE, target |-> me.commit_id]
    ELSE [ok |-> FALSE, err |-> "Failed to update HEAD reference"]

RaceSetTarget(p) ==
    /\ race.procs[p].pc = "set_target"
    /\ LET updated == set_target_id(race.procs[p])
       IN IF updated.ok
          THEN /\ branch_ref' = updated.target
               /\ race' = [race EXCEPT !.procs[p].pc = "reset_index",
                                       !.published = Append(@, updated.target)]
          ELSE /\ race' = [race EXCEPT !.procs[p].pc = "done",
                                       !.procs[p].result = updated.err]
               /\ UNCHANGED branch_ref
    /\ UNCHANGED <<call, bump_run, diff, rebuild, sign, in_repo, HEAD, objects, index, worktree, config,
                   run_vars>>

\* commit.rs 415-419: the index reset of the run.
RaceResetIndex(p) ==
    /\ race.procs[p].pc = "reset_index"
    /\ index' = reset_index_to_head(HEAD, branch_ref)
    /\ race' = [race EXCEPT !.procs[p].pc = "done", !.procs[p].result = "ok"]
    /\ UNCHANGED <<call, bump_run, diff, rebuild, sign, in_repo, HEAD, branch_ref, objects, worktree, config,
                   run_vars>>

NextRace ==
    \E p \in Procs :
       \/ RaceReadHead(p)
       \/ RaceWriteObjects(p)
       \/ RaceReadRef(p)
       \/ RaceSetTarget(p)
       \/ RaceResetIndex(p)

SpecRace == InitRace /\ [][NextRace]_vars

(***************************************************************************)
(* One call of sign_commit_payload, step by step: the checks of the        *)
(* configuration, the agent strategy, the key-file strategy; and, when the *)
(* caller is create_commit, what create_commit does with the outcome.      *)
(***************************************************************************)
\* A key named by the comment of the agent identity instead of a path.
CommentKey == <<"c">>

\* Every signing configuration: enabled or not, either format, no key, a
\* path to a public key file or a comment.
SigningConfigs ==
    [enabled : BOOLEAN, format : {"Ssh", "Gpg"},
     signing_key : {Unset, Set(SigningKey), Set(CommentKey)}]

\* The payload that is signed: the unsigned commit on top of HEAD.
SignPayload ==
    build_commit_payload(HeadTree, HeadCommit, Committer, Committer,
                         commit_message(OldVersion, NewVersion))

\* create_commit calls sign_commit_payload only when signing is enabled
\* (commit.rs 671); the tests of signing.rs call it with any configuration.
InitSign ==
    /\ call = CallIdle
    /\ bump_run = BumpIdle
    /\ diff = DiffIdle
    /\ rebuild = RebuildIdle
    /\ race = RaceIdle
    /\ \E signing_config \in SigningConfigs, agent \in Agents, files \in KeyDirectories,
          caller \in {"create_commit", "test"} :
          /\ caller = "create_commit" => signing_config.enabled
          /\ sign = [pc |-> "start", caller |-> caller, signing_config |-> signing_config,
                     payload |-> SignPayload, agent |-> agent, files |-> files,
                     log |-> <<>>, agent_err |-> Unset, result |-> [status |-> "running"],
                     commit |-> NoCommit]
    /\ RunIdle

\* A key is asked for even when signing is not enabled.
SignCommitPayloadIgnoringEnabled ==
    /\ sign.pc = "start"
    /\ LET cfg == sign.signing_config IN
       IF ~cfg.signing_key.set
       THEN sign' = [sign EXCEPT
                       !.pc = "return",
                       !.result = [status |-> "err",
                                   err |-> [msg |-> "Commit signing is enabled but no signing key is configured"]]]
       ELSE IF cfg.format = "Gpg"
       THEN sign' = [sign EXCEPT
                       !.pc = "return",
                       !.result = [status |-> "err",
                                   err |-> [msg |-> "GPG signing is not yet implemented"]]]
       ELSE sign' = [sign EXCEPT !.pc = "agent"]
    /\ UNCHANGED <<call, bump_run, diff, rebuild, race, repo_vars, run_vars>>

\* sign_commit_payload, signing.rs 126-154: the checks before any signing.
SignCommitPayload ==
    /\ sign.pc = "start"
    /\ LET cfg == sign.signing_config IN
       IF ~cfg.enabled
       THEN sign' = [sign EXCEPT !.pc = "return", !.result = [status |-> "none"]]
       ELSE IF ~cfg.signing_key.set
       THEN sign' = [sign EXCEPT
                       !.pc = "return",
                       !.result = [status |-> "err",
                                   err |-> [msg |-> "Commit signing is enabled but no signing key is configured"]]]
       ELSE IF cfg.format = "Gpg"
       THEN sign' = [sign EXCEPT
                       !.pc = "return",
                       !.result = [status |-> "err",
                                   err |-> [msg |-> "GPG signing is not yet implemented"]]]
       ELSE sign' = [sign EXCEPT !.pc = "agent"]
    /\ UNCHANGED <<call, bump_run, diff, rebuild, race, repo_vars, run_vars>>

\* What the agent strategy touches: the agent when the socket variable is
\* set, and the public key file when the identities are searched for a key
\* given as a path.
AgentAccesses(signing_key, agent) ==
    IF ~agent.auth_sock THEN <<"env">>
    ELSE IF ~agent.connects \/ ~agent.lists THEN <<"env", "agent">>
    ELSE IF EndsWith(signing_key, PubSuffix) \/ Contains(signing_key, <<"/">>)
            \/ Contains(signing_key, <<"\\">>)
    THEN <<"env", "agent", "public key file">>
    ELSE <<"env", "agent">>

\* The error of the agent is the result: the key file is not tried.
SignWithSshAgentWithoutFallback ==
    /\ sign.pc = "agent"
    /\ LET signing_key == sign.signing_config.signing_key.value
           by_agent == sign_with_ssh_agent(signing_key, sign.payload, sign.agent, sign.files)
       IN sign' = [sign EXCEPT
                     !.pc = "return",
                     !.log = @ \o AgentAccesses(signing_key, sign.agent),
                     !.agent_err = IF by_agent.ok THEN Unset ELSE Set(by_agent.err),
                     !.result = IF by_agent.ok
                                THEN [status |-> "some",
                                      signature |-> format_signature_for_header(by_agent.sig)]
                                ELSE [status |-> "err", err |-> by_agent.err]]
    /\ UNCHANGED <<call, bump_run, diff, rebuild, race, repo_vars, run_vars>>

\* sign_with_ssh, signing.rs 162-170: the agent strategy; its signature is
\* returned at once, its error is printed and the key file comes next.
SignWithSshAgent ==
    /\ sign.pc = "agent"
    /\ LET signing_key == sign.signing_config.signing_key.value
           by_agent == sign_with_ssh_agent(signing_key, sign.payload, sign.agent, sign.files)
       IN IF by_agent.ok
          THEN sign' = [sign EXCEPT
                          !.pc = "return",
                          !.log = @ \o AgentAccesses(signing_key, sign.agent),
                          !.result = [status |-> "some",
                                      signature |-> format_signature_for_header(by_agent.sig)]]
          ELSE sign' = [sign EXCEPT
                          !.pc = "file",
                          !.log = @ \o AgentAccesses(signing_key, sign.agent),
                          !.agent_err = Set(by_agent.err)]
    /\ UNCHANGED <<call, bump_run, diff, rebuild, race, repo_vars, run_vars>>

\* sign_with_ssh, signing.rs 173: the key-file strategy.
SignWithSshFile ==
    /\ sign.pc = "file"
    /\ LET signing_key == sign.signing_config.signing_key.value
           by_file == sign_with_ssh_file(signing_key, sign.payload, sign.files)
       IN sign' = [sign EXCEPT
                     !.pc = "return",
                     !.log = Append(@, "private key file"),
                     !.result = IF by_file.ok
                                THEN [status |-> "some",
                                      signature |-> format_signature_for_header(by_file.sig)]
                                ELSE [status |-> "err", err |-> by_file.err]]
    /\ UNCHANGED <<call, bump_run, diff, rebuild, race, repo_vars, run_vars>>

\* create_commit, commit.rs 678-708: the commit with the gpgsig header is
\* written when a signature came back, no commit when signing failed.
CommitAfterSigning ==
    /\ sign.pc = "return"
    /\ sign.caller = "create_commit"
    /\ sign' = [sign EXCEPT
                  !.pc = "done",
                  !.commit =
                     IF sign.result.status = "err" THEN NoCommit
                     ELSE Commit(HeadTree, <<HeadCommit>>, Committer, Committer,
                                 commit_message(OldVersion, NewVersion),
                                 IF sign.result.status = "some"
                                 THEN << <<"gpgsig", sign.result.signature>> >>
                                 ELSE <<>>)]
    /\ UNCHANGED <<call, bump_run, diff, rebuild, race, repo_vars, run_vars>>

NextSign ==
    \/ SignCommitPayload
    \/ SignWithSshAgent
    \/ SignWithSshFile
    \/ CommitAfterSigning

SpecSign == InitSign /\ [][NextSign]_vars

(***************************************************************************)
(* Properties of the classifier.                                           *)
(***************************************************************************)
LineSet(lines) == {lines[i] : i \in 1..Len(lines)}

NotRelevantLines(lines, pred) ==
    SelectSeq(lines, LAMBDA l : ~IsRelevant(pred, l))

\* C2: every line of the merged text is a line of the base text or a line of
\* the working text for which the predicate holds, and the lines of the base
\* text that fail the predicate are all still there, in order, with no line
\* failing the predicate added.
C2_MergedLinesComeFromBaseOrRelevantWorking ==
    diff.pc = "done" =>
       LET base == SplitLines(diff.head_content)
           working == SplitLines(diff.working_content)
           merged_lines == SplitLines(diff.merged)
       IN /\ \A i \in 1..Len(merged_lines) :
               \/ merged_lines[i] \in LineSet(base)
               \/ merged_lines[i] \in LineSet(working) /\ IsRelevant(diff.pred, merged_lines[i])
          /\ NotRelevantLines(merged_lines, diff.pred) = NotRelevantLines(base, diff.pred)

(***************************************************************************)
(* Properties of the tree rebuild.                                         *)
(***************************************************************************)
\* C3: every entry of the base tree is in the rebuilt tree with its name and
\* mode, with the update's object id when its path is in the update set and
\* with its own object id otherwise.
C3_EveryBaseEntryKept ==
    rebuild.pc = "done" =>
       LET base == rebuild.head_tree.entries
           new_entries == rebuild.tree_id.entries
       IN \A i \in 1..Len(base) :
             \E j \in 1..Len(new_entries) :
                /\ new_entries[j].filename = base[i].filename
                /\ new_entries[j].mode = base[i].mode
                /\ new_entries[j].oid =
                      IF UpdateMapHas(rebuild.file_updates, <<base[i].filename>>)
                      THEN UpdateMapGet(rebuild.file_updates, <<base[i].filename>>)
                      ELSE base[i].oid

\* A base tree of three entries or more, rebuilt with an update for one of
\* them: that entry has a new object id and another entry is unchanged.
C3_Witness ==
    /\ rebuild.pc = "done"
    /\ Len(rebuild.head_tree.entries) >= 3
    /\ \E i, k \in 1..Len(rebuild.head_tree.entries) :
          /\ UpdateMapHas(rebuild.file_updates, <<rebuild.head_tree.entries[i].filename>>)
          /\ rebuild.tree_id.entries[i].oid # rebuild.head_tree.entries[i].oid
          /\ ~UpdateMapHas(rebuild.file_updates, <<rebuild.head_tree.entries[k].filename>>)
          /\ rebuild.tree_id.entries[k] = rebuild.head_tree.entries[k]

\* C9: an update whose path lies in a subdirectory and names a file of the
\* base tree is resolved, in the rebuilt tree, to the update's blob id.
C9_NestedPathResolvesToUpdate ==
    rebuild.pc = "done" =>
       \A i \in 1..Len(rebuild.file_updates) :
          LET path == rebuild.file_updates[i][1] IN
          (Len(path) > 1 /\ lookup_entry_by_path(rebuild.head_tree, path) # NoEntry)
             => lookup_entry_by_path(rebuild.tree_id, path).oid
                   = UpdateMapGet(rebuild.file_updates, path)

(***************************************************************************)
(* Properties of a run of commit_version_changes_with_files.               *)
(***************************************************************************)
Count(event) == Cardinality({i \in 1..Len(log) : log[i] = event})

\* Every occurrence of event a in the log precedes every occurrence of b.
Precedes(a, b) ==
    \A i, j \in 1..Len(log) : (log[i] = a /\ log[j] = b) => i < j

Finished == pc = "done"
Succeeded == pc = "done" /\ result = "ok"
Failed == pc = "done" /\ result # "ok"

\* The commit objects the run has added to the object store.
NewCommits == {o \in objects \ before.objects : o.kind = "commit"}

\* C1: no step of the run changes a file of the working copy.
C1_WorkingCopyNeverWritten == [][worktree' = worktree]_vars

\* A successful run that staged a filtered manifest: the working copy still
\* has the edit that was left out of the commit, and the work in progress in
\* src/lib.rs.
C1_Witness ==
    /\ Succeeded
    /\ locals.file_updates[1][2] # Blob(worktree[args.manifest_path].content)
    /\ worktree[LibPath] = File(LibWorking)

\* C4: with signing enabled, every commit the run writes carries one gpgsig
\* header holding a signature over the unsigned payload of that very commit;
\* a run that fails to sign has written no commit and has not moved the
\* branch, and a run that gets past create_commit has written a commit.
C4_SignedOrNoCommit ==
    read_signing_config(config).enabled =>
       /\ \A c \in NewCommits :
             /\ Len(c.extra_headers) = 1
             /\ c.extra_headers[1][1] = "gpgsig"
             /\ c.extra_headers[1][2].signed =
                   build_commit_payload(c.tree, c.parents[1], c.author, c.committer, c.message)
       /\ result = "Failed to sign commit" =>
             /\ Failed
             /\ NewCommits = {}
             /\ Count("commit") = 0
             /\ branch_ref = before.branch_ref
       /\ (pc \in {"update_head", "reset_index"} \/ Succeeded) => NewCommits # {}

\* A successful run with signing enabled.
C4_Witness ==
    /\ read_signing_config(config).enabled
    /\ Succeeded
    /\ branch_ref.extra_headers # <<>>

\* C5: when the branch has moved, it points to the commit of the run, that
\* commit, its tree and every blob below it are in the object store, and all
\* object writes precede the reference write; a run that fails before the
\* reference write leaves HEAD and the branch where they were.
C5_RefAfterObjects ==
    /\ HEAD = before.HEAD
    /\ branch_ref # before.branch_ref =>
          /\ branch_ref = locals.commit_id
          /\ {branch_ref} \cup TreeClosure(branch_ref.tree) \subseteq objects
          /\ \A i \in 1..Len(locals.file_updates) : locals.file_updates[i][2] \in objects
          /\ Count("blob") = 1 + Len(args.additional_files)
          /\ Count("tree") = 1
          /\ Count("commit") = 1
          /\ Precedes("blob", "ref") /\ Precedes("tree", "ref") /\ Precedes("commit", "ref")
    /\ (Failed /\ Count("ref") = 0) => branch_ref = before.branch_ref

\* The branch has moved to the new commit.
C5_Witness ==
    /\ Succeeded
    /\ branch_ref # before.branch_ref
    /\ Len(args.additional_files) > 0

\* C6 as stated: one reference write and one index write, in this order and
\* after the commit, in a successful run; in a run that returns an error
\* neither the branch nor the index has been modified.
C6_RefAndIndexOnlyOnSuccess ==
    /\ Succeeded =>
          /\ Count("ref") = 1 /\ Count("index") = 1
          /\ Precedes("ref", "index")
          /\ Precedes("commit", "ref")
    /\ Failed =>
          /\ Count("ref") = 0 /\ Count("index") = 0
          /\ branch_ref = before.branch_ref
          /\ index = before.index

\* C6 amended: as above for a successful run; in a run that returns an error
\* the index has not been modified, and the branch has not been modified
\* unless the error is the one of the index reset, which comes after the
\* branch has been moved, once, to the new commit.
C6_RefOnceIndexOnce ==
    /\ Succeeded =>
          /\ Count("ref") = 1 /\ Count("index") = 1
          /\ Precedes("ref", "index")
          /\ Precedes("commit", "ref")
    /\ Failed =>
          /\ Count("index") = 0
          /\ index = before.index
          /\ IF result = "Failed to write index"
             THEN Count("ref") = 1 /\ branch_ref = locals.commit_id
             ELSE Count("ref") = 0 /\ branch_ref = before.branch_ref

\* A run that failed in the index reset, after it moved the branch.
C6_Witness ==
    /\ Failed
    /\ result = "Failed to write index"
    /\ branch_ref # before.branch_ref
    /\ before.index # IndexFromTree(branch_ref.tree, <<>>)

IdentityMissing == ~config.user_name.set \/ ~config.user_email.set

\* C7 as stated: with user.name or user.email missing the run writes no
\* object at all and returns an error.
C7_MissingIdentityWritesNothing ==
    IdentityMissing =>
       /\ log = <<>>
       /\ objects = before.objects
       /\ Finished => Failed

\* C7 amended: with user.name or user.email missing the run writes no commit
\* object, moves neither the branch nor the index and returns an error; the
\* blobs and the tree are written before the identity is read.
C7_MissingIdentityWritesNoCommit ==
    IdentityMissing =>
       /\ Count("commit") = 0
       /\ NewCommits = {}
       /\ branch_ref = before.branch_ref
       /\ index = before.index
       /\ pc \notin {"update_head", "reset_index"}
       /\ Finished => Failed

\* The run stopped on the missing identity, with blobs and tree written.
C7_Witness ==
    /\ IdentityMissing
    /\ Failed
    /\ result \in {"Git config 'user.name' is not set", "Git config 'user.email' is not set"}
    /\ Count("blob") >= 1 /\ Count("tree") = 1

ManifestInHead == lookup_entry_by_path(locals.head_tree, locals.relative_path) # NoEntry

\* The two accepting cases of the version-change check.
VersionChangeAccepted ==
    \/ /\ ManifestInHead
       /\ lookup_entry_by_path(locals.head_tree, locals.relative_path).mode # "tree"
       /\ Contains(lookup_entry_by_path(locals.head_tree, locals.relative_path).oid.data,
                   args.old_version)
       /\ Contains(locals.current_content, args.new_version)
    \/ /\ ~ManifestInHead
       /\ Contains(locals.current_content, KwVersion)
       /\ Contains(locals.current_content, args.new_version)

\* The run ended in the check of the version change or in the read of the
\* HEAD content that follows it.
StoppedBeforeStaging ==
    /\ Failed
    /\ result \in {"No version-related changes found", "File does not exist in HEAD",
                   "Tree entry is not a blob"}

\* C8: once HEAD has been read and the check is over, the run has gone on to
\* staging exactly in the two accepting cases, and has otherwise failed with
\* the no-version-change error before any write.
C8_VersionCheckDecidesStaging ==
    (locals.head_tree # NoTree /\ pc \notin {"start", "verify"}) =>
       /\ VersionChangeAccepted => ~StoppedBeforeStaging
       /\ ~VersionChangeAccepted =>
             /\ Failed
             /\ result = "No version-related changes found"
             /\ log = <<>>

\* C10: after a successful run the index has one entry for each file of the
\* tree of HEAD, with the mode and object id of the tree, and nothing else.
C10_IndexMirrorsHead ==
    Succeeded =>
       LET tree == head_commit(HEAD, branch_ref).tree IN
       /\ \A e \in index :
             LET t == lookup_entry_by_path(tree, e.path)
             IN t # NoEntry /\ t.mode # "tree" /\ t.mode = e.mode /\ t.oid = e.oid
       /\ \A p \in WorkPaths \cup {e.path : e \in before.index} :
             LET t == lookup_entry_by_path(tree, p)
             IN (t # NoEntry /\ t.mode # "tree") => \E e \in index : e.path = p
       /\ \A e1, e2 \in index : e1.path = e2.path => e1 = e2

\* A successful run that started with an entry staged that is not in the
\* tree of the new HEAD: the entry is gone.
C10_Witness ==
    /\ Succeeded
    /\ \E e \in before.index :
          /\ lookup_entry_by_path(branch_ref.tree, e.path) = NoEntry
          /\ e \notin index

(***************************************************************************)
(* Two runs on one repository.                                             *)
(***************************************************************************)
\* The commits reachable from a commit through its parents, itself included.
RECURSIVE Ancestors(_)
Ancestors(commit) ==
    IF commit = NoCommit THEN {}
    ELSE {commit} \cup UNION {Ancestors(commit.parents[i]) : i \in 1..Len(commit.parents)}

\* C11: under every interleaving of two runs, every commit a run has
\* published on the branch stays in the parent chain of the commit the branch
\* points to (the reference update fails when the branch has moved since the
\* run read HEAD): no update is lost.
C11_NoLostUpdate ==
    \A i \in 1..Len(race.published) : race.published[i] \in Ancestors(branch_ref)

(***************************************************************************)
(* The staging decision, file by file.                                     *)
(***************************************************************************)
\* The files staged so far: the manifest first, then the additional files in
\* order; each with its HEAD content, its working content and its file type.
StagedFiles ==
    [i \in 1..Len(locals.file_updates) |->
       IF i = 1
       THEN [blob |-> locals.file_updates[1][2], head_content |-> Set(locals.head_content),
             working_content |-> locals.current_content, file_type |-> "Manifest"]
       ELSE [blob |-> locals.file_updates[i][2],
             head_content |-> args.additional_files[i - 1].head_content,
             working_content |-> args.additional_files[i - 1].working_content,
             file_type |-> args.additional_files[i - 1].file_type]]

PredOfType(file_type) ==
    [kind |-> IF file_type = "Readme" THEN "readme"
              ELSE IF file_type = "CargoLock" THEN "cargo_lock"
              ELSE "generic",
     crate_name |-> args.crate_name, old_version |-> args.old_version,
     new_version |-> args.new_version]

\* The blob holds the working content when every changed line is relevant,
\* and the merged content otherwise.
StagedFiltered(f) ==
    \E changes \in iter_all_changes(f.head_content.value, f.working_content) :
       IF has_non_relevant_changes(changes, PredOfType(f.file_type))
       THEN f.blob.data = apply_hunks(changes, PredOfType(f.file_type))
       ELSE f.blob.data = f.working_content

\* C12 (as stated): every staged file with HEAD content, of any file type,
\* is staged whole when all its changed lines are relevant under the
\* predicate of its type and filtered by that predicate otherwise.
C12_EveryFileTypeFiltered ==
    pc # "idle" =>
       \A i \in 1..Len(locals.file_updates) :
          StagedFiles[i].head_content.set => StagedFiltered(StagedFiles[i])

\* C12 (amended): the manifest and every additional file of type Readme or
\* CargoLock with HEAD content is staged whole when all its changed lines are
\* relevant under the predicate of its type and filtered otherwise; a file
\* of type Other, and a file without HEAD content, is staged whole.
C12_StagedContentByFileType ==
    pc # "idle" =>
       \A i \in 1..Len(locals.file_updates) :
          LET f == StagedFiles[i] IN
          IF f.head_content.set /\ f.file_type # "Other"
          THEN StagedFiltered(f)
          ELSE f.blob.data = f.working_content

\* A README with HEAD content and a change that is not a version reference
\* has been staged, and its blob differs from the working content.
C12_Witness ==
    /\ pc = "create_commit"
    /\ \E i \in 2..Len(locals.file_updates) :
          /\ StagedFiles[i].file_type = "Readme"
          /\ StagedFiles[i].head_content.set
          /\ StagedFiles[i].blob.data # StagedFiles[i].working_content

ChangedLines(changes) == SelectSeq(changes, LAMBDA c : c.tag \in {"Delete", "Insert"})

\* The lines a walk of the change list keeps: every equal line, a deleted
\* line iff the predicate fails for it, an inserted line iff it holds.
KeptLines(changes, pred) ==
    LET kept == SelectSeq(changes, LAMBDA c :
                   \/ c.tag = "Equal"
                   \/ c.tag = "Delete" /\ ~IsRelevant(pred, c.value)
                   \/ c.tag = "Insert" /\ IsRelevant(pred, c.value))
    IN [i \in 1..Len(kept) |-> kept[i].value]

ExampleMerged == <<"a", "\n">> \o KwVersion \o <<"=", "2", "\n", "b", "\n">>

\* C14: the merged text is the concatenation, in diff order, of every equal
\* line, every deleted line the predicate fails for and every inserted line
\* the predicate holds for; for base "a\nversion=1\nb\n", working
\* "a2\nversion=2\nb\n" and the predicate "contains version" it is
\* "a\nversion=2\nb\n".
C14_MergeWalksTheDiff ==
    diff.pc = "done" =>
       /\ diff.merged = JoinLines(KeptLines(diff.changes, diff.pred))
       /\ (diff.head_content = ExampleBase /\ diff.working_content = ExampleWorking
             /\ diff.pred = ExamplePred)
          => diff.merged = ExampleMerged

\* The example has been merged: one deletion rejected, one accepted, one
\* insertion rejected, one accepted, one equal line.
C14_Witness ==
    /\ diff.pc = "done"
    /\ diff.head_content = ExampleBase
    /\ diff.working_content = ExampleWorking
    /\ diff.pred = ExamplePred
    /\ Len(ChangedLines(diff.changes)) = 4
    /\ diff.merged = ExampleMerged

\* C15: has_non_*_changes is false (has_relevant_only_changes is true)
\* exactly when every inserted or deleted line satisfies the predicate: true
\* with no changed line, false with one or more changed lines that fail it.
C15_RelevantOnlyIffEveryChangedLineRelevant ==
    diff.pc = "done" =>
       LET changed == ChangedLines(diff.changes)
           failing == SelectSeq(changed, LAMBDA c : ~IsRelevant(diff.pred, c.value))
       IN /\ (~diff.has_other_changes) <=> (Len(failing) = 0)
          /\ Len(changed) = 0 => ~diff.has_other_changes
          /\ Len(failing) >= 1 => diff.has_other_changes

\* Two texts with a relevant changed line and two or more changed lines that
\* fail the predicate, the first of them a deletion, have been classified.
C15_Witness ==
    /\ diff.pc = "done"
    /\ diff.has_other_changes
    /\ LET changed == ChangedLines(diff.changes)
           failing == SelectSeq(changed, LAMBDA c : ~IsRelevant(diff.pred, c.value))
       IN /\ Len(failing) >= 2
          /\ Len(changed) > Len(failing)
          /\ failing[1].tag = "Delete"

\* C16: when every changed line satisfies the predicate the merged text is
\* the working text, and merging a text with itself gives that text.
C16_RelevantOnlyMergeIsWorking ==
    diff.pc = "done" =>
       /\ ~diff.has_other_changes => diff.merged = diff.working_content
       /\ diff.head_content = diff.working_content => diff.merged = diff.head_content

\* Two different texts whose changed lines are all relevant, insertions and
\* deletions among them, have been merged.
C16_Witness ==
    /\ diff.pc = "done"
    /\ ~diff.has_other_changes
    /\ diff.head_content # diff.working_content
    /\ \E i \in 1..Len(diff.changes) : diff.changes[i].tag = "Insert"
    /\ \E i \in 1..Len(diff.changes) : diff.changes[i].tag = "Delete"
    /\ diff.merged = diff.working_content

(***************************************************************************)
(* Properties of signing.                                                  *)
(***************************************************************************)
Returned == sign.pc \in {"return", "done"}

NoKeyError == "Commit signing is enabled but no signing key is configured"
GpgError == "GPG signing is not yet implemented"
NoMatchError == "No matching SSH key found in agent"

\* C17: sign_commit_payload returns Ok(None) whenever signing is not
\* enabled, whatever the format and the key; an error when enabled without a
\* key; the GPG error when enabled with a key and format Gpg; and a signature
\* only when enabled with a key and format Ssh.
C17_SignOutcomeByConfiguration ==
    Returned =>
       LET cfg == sign.signing_config
           r == sign.result
       IN /\ ~cfg.enabled => r.status = "none"
          /\ (cfg.enabled /\ ~cfg.signing_key.set)
             => (r.status = "err" /\ r.err.msg = NoKeyError)
          /\ (cfg.enabled /\ cfg.signing_key.set /\ cfg.format = "Gpg")
             => (r.status = "err" /\ r.err.msg = GpgError)
          /\ r.status = "some"
             => (cfg.enabled /\ cfg.signing_key.set /\ cfg.format = "Ssh")
          /\ r = sign_commit_payload(cfg, sign.payload, sign.agent, sign.files)

\* Signing is not enabled while a key is set, the format is Ssh and the
\* agent holds the key and would sign: the call has returned None.
C17_Witness ==
    /\ sign.pc = "return"
    /\ ~sign.signing_config.enabled
    /\ sign.signing_config.signing_key = Set(CommentKey)
    /\ sign.signing_config.format = "Ssh"
    /\ sign.agent = Agent(TRUE, TRUE, TRUE, <<OtherIdentity, OwnIdentity>>, TRUE)
    /\ sign.result.status = "none"

Touched(what) == \E i \in 1..Len(sign.log) : sign.log[i] = what

\* C18: the private key file is read only after the agent strategy has
\* failed; a signature of the agent is returned without the key file being
\* read; every failure of the agent is followed by the key-file attempt; and
\* SSH signing ends in an error only when both strategies have failed.
C18_AgentFirstThenKeyFile ==
    LET signing_key == sign.signing_config.signing_key.value
        by_file == sign_with_ssh_file(signing_key, sign.payload, sign.files)
    IN /\ Touched("private key file")
          => /\ sign.agent_err.set
             /\ sign.log[Len(sign.log)] = "private key file"
             /\ sign.log[1] = "env"
             /\ Cardinality({i \in 1..Len(sign.log) : sign.log[i] = "private key file"}) = 1
       /\ (Returned /\ Touched("env") /\ ~sign.agent_err.set)
          => /\ ~Touched("private key file")
             /\ sign.result.status = "some"
             /\ sign.result.signature.by = "agent"
       /\ (Returned /\ sign.agent_err.set)
          => /\ Touched("private key file")
             /\ sign.result = IF by_file.ok
                              THEN [status |-> "some", signature |-> by_file.sig]
                              ELSE [status |-> "err", err |-> by_file.err]
       /\ (Returned /\ Touched("env") /\ sign.result.status = "err")
          => (sign.agent_err.set /\ ~by_file.ok)

\* The agent held the key and failed to sign (an RPC failure), and the key
\* file has signed.
C18_Witness ==
    /\ sign.pc = "return"
    /\ sign.agent_err = Set([msg |-> "SSH agent signing failed"])
    /\ Touched("private key file")
    /\ sign.result.status = "some"
    /\ sign.result.signature.by = "file"

\* The agent answered and none of its identities matches the signing key.
NoIdentityMatched ==
    /\ Returned
    /\ sign.agent_err.set
    /\ sign.agent_err.value.msg = NoMatchError

\* The keys the agent offers, as the error names them.
AvailableKeys(agent) ==
    [i \in 1..Len(agent.identities) |->
       IF agent.identities[i].comment = <<>> THEN agent.identities[i].fingerprint
       ELSE agent.identities[i].comment]

CannotCommit ==
    \/ ~in_repo
    \/ before.HEAD.kind = "detached"
    \/ head_commit(before.HEAD, before.branch_ref).kind # "commit"

\* C20: when HEAD is detached, or HEAD is unborn or does not resolve to a
\* commit, or the manifest is not inside a repository, the run never gets
\* past the reference update, it ends with an error, and HEAD, the branch
\* reference and the index are as they were before the run.
C20_RefusedRunLeavesRepositoryAlone ==
    CannotCommit =>
       /\ pc # "reset_index"
       /\ Finished => Failed
       /\ HEAD = before.HEAD
       /\ branch_ref = before.branch_ref
       /\ index = before.index

\* A run on a detached HEAD whose index held staged changes: it has written
\* its commit object and then failed on the reference update.
C20_Witness ==
    /\ before.HEAD.kind = "detached"
    /\ Failed
    /\ result = "HEAD is not a reference (detached HEAD state)"
    /\ locals.commit_id \in objects \ before.objects
    /\ before.index # CleanIndex
    /\ index = before.index
    /\ branch_ref = before.branch_ref

(***************************************************************************)
(* The formatting functions of signing.rs, each called once on inputs      *)
(* drawn from small sets.                                                  *)
(***************************************************************************)
MaxOffset == 6100

FormatNames == {<<"T">>, <<"A", " ", "B">>}
FormatSeconds == {0, 1700000000}
FormatMessages ==
    {<<>>, <<"m">>, <<"m", "\n">>, <<"a", "\n", "\n", "b">>, commit_message(OldVersion, NewVersion)}

ActorSignature(name, email, seconds, offset) ==
    [name |-> name, email |-> email, time |-> [seconds |-> seconds, offset |-> offset]]

FormatSignatures ==
    {ActorSignature(name, <<"t", "@", "x">>, seconds, offset) :
        name \in FormatNames, seconds \in FormatSeconds, offset \in {0, 60, -300}}

OtherCommit == Commit(Tree(<<>>), <<HeadCommit>>, Committer, Committer, <<"n">>, <<>>)

\* SshSig::to_pem(LineEnding::LF): the two boundary lines and the lines of
\* base64 between them, every line ended by a line feed; and the text of
\* test_format_signature_for_header, which has no line feed at its end.
PemSignatures ==
    {PemBegin \o <<"\n">> \o JoinLines(body) \o PemEnd \o tail :
        body \in SeqsUpTo({<<"A", "\n">>, <<"b", "/", "\n">>, <<"=", "\n">>}, MaxLines),
        tail \in {<<>>, <<"\n">>}}

\* str::as_bytes for the characters of the literals of the signed blob.
Ascii ==
    "S" :> 83 @@ "H" :> 72 @@ "I" :> 73 @@ "G" :> 71 @@ "g" :> 103 @@ "i" :> 105
       @@ "t" :> 116 @@ "s" :> 115 @@ "h" :> 104 @@ "a" :> 97 @@ "5" :> 53
       @@ "1" :> 49 @@ "2" :> 50

as_bytes(text) == [i \in 1..Len(text) |-> Ascii[text[i]]]

\* u32::to_be_bytes.
to_be_bytes(n) ==
    <<(n \div 16777216) % 256, (n \div 65536) % 256, (n \div 256) % 256, n % 256>>

\* Sha512::digest: 64 bytes that depend on the bytes of the message; the
\* digest itself is not computed.
RECURSIVE Mix(_, _)
Mix(message, acc) ==
    IF message = <<>> THEN acc
    ELSE Mix(Tail(message), (acc * 31 + Head(message) + 1) % 65521)

Sha512_digest(message) ==
    LET Spread(h) == [i \in 1..64 |-> (h * i + i) % 256]
    IN Spread(Mix(message, 7))

\* The blob without the reserved field.
sshsig_blob_without_reserved(payload) ==
    as_bytes(<<"S", "S", "H", "S", "I", "G">>)
       \o to_be_bytes(Len(<<"g", "i", "t">>)) \o as_bytes(<<"g", "i", "t">>)
       \o to_be_bytes(Len(<<"s", "h", "a", "5", "1", "2">>))
       \o as_bytes(<<"s", "h", "a", "5", "1", "2">>)
       \o to_be_bytes(Len(Sha512_digest(payload))) \o Sha512_digest(payload)

\* sign_with_ssh_agent, signing.rs 215-234: the blob the agent is asked to
\* sign.
sshsig_blob(payload) ==
    LET namespace == <<"g", "i", "t">>
        hash_alg == <<"s", "h", "a", "5", "1", "2">>
        Blob_(message_hash) ==
            as_bytes(<<"S", "S", "H", "S", "I", "G">>)
               \o to_be_bytes(Len(namespace)) \o as_bytes(namespace)
               \o to_be_bytes(0)
               \o to_be_bytes(Len(hash_alg)) \o as_bytes(hash_alg)
               \o to_be_bytes(Len(message_hash)) \o message_hash
    IN Blob_(Sha512_digest(payload))

\* sign_with_ssh_file, signing.rs 385: what SshSig::sign is called with.
key_file_sign_request(payload) ==
    [namespace |-> <<"g", "i", "t">>, hash_alg |-> <<"s", "h", "a", "5", "1", "2">>,
     msg |-> payload]

\* Payloads as bytes.
PayloadBytes == SeqsUpTo({0, 10, 116}, MaxLines)

\* The identities an agent may list for find_matching_identity: the key of
\* the public key file, a key that matches nothing, and two other keys whose
\* comment is part of the key that is asked for.
MaxIdentities == 2
IdentityPool ==
    { OwnIdentity, OtherIdentity,
      Identity(OtherFingerprint, <<"k">>), Identity(OtherFingerprint, <<"K">>) }
IdentityLists == SeqsUpTo(IdentityPool, MaxIdentities)

Called(fn, input) == [pc |-> "called", fn |-> fn, input |-> input, output |-> <<>>]

InitFormat ==
    /\ \/ \E name \in FormatNames, seconds \in FormatSeconds,
             offset \in (0 - MaxOffset)..MaxOffset :
             call = Called("write_signature",
                           ActorSignature(name, <<"t", "@", "x">>, seconds, offset))
       \/ \E tree_id \in {HeadTree, Tree(<<>>)}, parent_id \in {HeadCommit, OtherCommit},
             author \in FormatSignatures, committer \in FormatSignatures,
             message \in FormatMessages :
             call = Called("build_commit_payload",
                           [tree_id |-> tree_id, parent_id |-> parent_id, author |-> author,
                            committer |-> committer, message |-> message])
       \/ \E signature \in PemSignatures :
             call = Called("format_signature_for_header", signature)
       \/ \E payload \in PayloadBytes, strategy \in {"agent", "key file"} :
             call = Called("sign_with_ssh", [payload |-> payload, strategy |-> strategy])
       \/ \E identities \in IdentityLists, signing_key \in {SigningKey, Fingerprint},
             files \in KeyDirectories :
             call = Called("find_matching_identity",
                           [identities |-> identities, signing_key |-> signing_key,
                            files |-> files])
    /\ bump_run = BumpIdle
    /\ diff = DiffIdle
    /\ rebuild = RebuildIdle
    /\ race = RaceIdle
    /\ sign = SignIdle
    /\ RunIdle

\* signing.rs 472-488.
WriteSignature ==
    /\ call.pc = "called"
    /\ call.fn = "write_signature"
    /\ call' = [call EXCEPT !.pc = "returned", !.output = write_signature(call.input)]
    /\ UNCHANGED <<bump_run, diff, rebuild, race, sign, repo_vars, run_vars>>

\* signing.rs 433-469.
BuildCommitPayload ==
    /\ call.pc = "called"
    /\ call.fn = "build_commit_payload"
    /\ call' = [call EXCEPT
                   !.pc = "returned",
                   !.output = build_commit_payload(call.input.tree_id, call.input.parent_id,
                                                   call.input.author, call.input.committer,
                                                   call.input.message)]
    /\ UNCHANGED <<bump_run, diff, rebuild, race, sign, repo_vars, run_vars>>

\* signing.rs 411-417, and the header as the commit writer writes it
\* (commit.rs 676-679 and 697-706).
FormatSignatureForHeader ==
    /\ call.pc = "called"
    /\ call.fn = "format_signature_for_header"
    /\ LET Out(formatted) ==
               [formatted |-> formatted,
                written |-> header_field_multi_line(<<"gpgsig">>, formatted)]
       IN call' = [call EXCEPT !.pc = "returned",
                               !.output = Out(format_signature_for_header(call.input))]
    /\ UNCHANGED <<bump_run, diff, rebuild, race, sign, repo_vars, run_vars>>

\* signing.rs 262-350.
FindMatchingIdentity ==
    /\ call.pc = "called"
    /\ call.fn = "find_matching_identity"
    /\ call' = [call EXCEPT
                   !.pc = "returned",
                   !.output = find_matching_identity(call.input.identities,
                                                     call.input.signing_key,
                                                     call.input.files)]
    /\ UNCHANGED <<bump_run, diff, rebuild, race, sign, repo_vars, run_vars>>

\* signing.rs 215-234: the agent strategy up to the blob it sends.
AgentSignRequest ==
    /\ call.pc = "called"
    /\ call.fn = "sign_with_ssh"
    /\ call.input.strategy = "agent"
    /\ call' = [call EXCEPT !.pc = "returned", !.output = sshsig_blob(call.input.payload)]
    /\ UNCHANGED <<bump_run, diff, rebuild, race, sign, repo_vars, run_vars>>

\* signing.rs 385: the key-file strategy up to the call of SshSig::sign.
KeyFileSignRequest ==
    /\ call.pc = "called"
    /\ call.fn = "sign_with_ssh"
    /\ call.input.strategy = "key file"
    /\ call' = [call EXCEPT !.pc = "returned",
                            !.output = key_file_sign_request(call.input.payload)]
    /\ UNCHANGED <<bump_run, diff, rebuild, race, sign, repo_vars, run_vars>>

NextFormat ==
    \/ WriteSignature
    \/ BuildCommitPayload
    \/ FormatSignatureForHeader
    \/ FindMatchingIdentity
    \/ AgentSignRequest
    \/ KeyFileSignRequest

SpecFormat == InitFormat /\ [][NextFormat]_vars

Returned_(fn) == call.pc = "returned" /\ call.fn = fn

\* The number of line feeds in a text.
LineFeeds(text) == Cardinality({i \in 1..Len(text) : text[i] = "\n"})

\* C21: build_commit_payload returns, in this order, the line of the tree,
\* the line of the parent, the line of the author (name, email in angle
\* brackets, seconds, offset), the same for the committer, one empty line
\* and the message with nothing after it; the part before the empty line
\* holds these four lines and no other.
C21_PayloadFieldOrder ==
    Returned_("build_commit_payload") =>
       LET in == call.input
           out == call.output
           Actor(sig) == sig.name \o <<" ", "<">> \o sig.email \o <<">", " ">>
                            \o int_to_string(sig.time.seconds) \o <<" ">>
                            \o format_offset(sig.time.offset)
           tree_line == <<"t", "r", "e", "e", " ", ToString(in.tree_id), "\n">>
           parent_line == <<"p", "a", "r", "e", "n", "t", " ", ToString(in.parent_id), "\n">>
           author_line == <<"a", "u", "t", "h", "o", "r", " ">> \o Actor(in.author) \o <<"\n">>
           committer_line == <<"c", "o", "m", "m", "i", "t", "t", "e", "r", " ">>
                                \o Actor(in.committer) \o <<"\n">>
           headers == SubSeq(out, 1, Len(out) - Len(in.message) - 1)
       IN /\ out = tree_line \o parent_line \o author_line \o committer_line
                      \o <<"\n">> \o in.message
          /\ headers = tree_line \o parent_line \o author_line \o committer_line
          /\ LineFeeds(headers) = 4

\* A payload whose author and committer differ and whose message holds an
\* empty line of its own.
C21_Witness ==
    /\ Returned_("build_commit_payload")
    /\ call.input.author # call.input.committer
    /\ call.input.message = <<"a", "\n", "\n", "b">>
    /\ call.input.parent_id = OtherCommit
    /\ LineFeeds(call.output) = 7

\* The number a text of decimal digits stands for.
RECURSIVE DecimalValue(_)
DecimalValue(text) ==
    IF text = <<>> THEN 0
    ELSE DecimalValue(SubSeq(text, 1, Len(text) - 1)) * 10
            + (CHOOSE d \in 0..9 : Digits[d + 1] = text[Len(text)])

\* What write_signature has written after the seconds and the space.
OffsetField ==
    LET written == call.input.name \o <<" ", "<">> \o call.input.email \o <<">", " ">>
                      \o int_to_string(call.input.time.seconds) \o <<" ">>
    IN SubSeq(call.output, Len(written) + 1, Len(call.output))

\* C22: write_signature renders the offset, taken as minutes, as "+" when
\* it is at least 0 and "-" when it is negative, then |offset| div 60 and
\* |offset| mod 60, each padded with zeros to two digits: 60 gives +0100,
\* -300 gives -0500, 0 gives +0000, and the field has exactly five
\* characters whenever |offset| < 6000.
C22_OffsetField ==
    Returned_("write_signature") =>
       LET offset == call.input.time.offset
           magnitude == IF offset >= 0 THEN offset ELSE -offset
           field == OffsetField
           hours == SubSeq(field, 2, Len(field) - 2)
           minutes == SubSeq(field, Len(field) - 1, Len(field))
       IN /\ Len(field) >= 5
          /\ field[1] = (IF offset >= 0 THEN "+" ELSE "-")
          /\ \A i \in 2..Len(field) : \E d \in 0..9 : Digits[d + 1] = field[i]
          /\ DecimalValue(hours) = magnitude \div 60
          /\ DecimalValue(minutes) = magnitude % 60
          /\ Len(hours) > 2 => hours[1] # "0"
          /\ magnitude < 6000 => Len(field) = 5
          /\ offset = 60 => field = <<"+", "0", "1", "0", "0">>
          /\ offset = -300 => field = <<"-", "0", "5", "0", "0">>
          /\ offset = 0 => field = <<"+", "0", "0", "0", "0">>

\* Five hours west of Greenwich.
C22_Witness ==
    /\ Returned_("write_signature")
    /\ call.input.time.offset = -300
    /\ OffsetField = <<"-", "0", "5", "0", "0">>

\* C24: when commit.gpgsign holds something that is not a boolean, or
\* gpg.format something other than "ssh" and "openpgp", the run fails and
\* creates no commit.
C24_SigningConfigFailsClosed ==
    (config.gpgsign = "junk" \/ config.format = "junk") =>
       /\ ~Succeeded
       /\ NewCommits = {}

TreePaths(tree) == {e.path : e \in IndexFromTree(tree, <<>>)}

\* C25: the tree of every commit the run writes has the paths of the tree
\* of HEAD, no more and no fewer, whatever the index held and whatever files
\* were handed over for staging.
C25_CommitHasThePathsOfHead ==
    \A c \in NewCommits :
       TreePaths(c.tree) = TreePaths(head_commit(before.HEAD, before.branch_ref).tree)

\* A commit written while notes.txt, which HEAD does not have, was staged in
\* the index and was handed over for staging as well.
C25_Witness ==
    /\ Succeeded
    /\ NewCommits # {}
    /\ \E e \in before.index : e.path = <<"notes.txt">>
    /\ Len(args.additional_files) = 1
    /\ args.additional_files[1].path = <<"notes.txt">>
    /\ <<"notes.txt">> \notin TreePaths(branch_ref.tree)

(***************************************************************************)
(* bump, mod.rs 243-404, around the commit step.  The hooks of              *)
(* [package.metadata.version-info] are part of the input: each is the exit *)
(* status its command would give.  A step is logged when it has acted.     *)
(***************************************************************************)
HookLists == SeqsUpTo({0, 1}, MaxUpdates)

InitBump ==
    /\ call = CallIdle
    /\ \E no_commit \in BOOLEAN, no_lock \in BOOLEAN, no_readme \in BOOLEAN,
          pre_bump_hooks \in HookLists, post_bump_hooks \in HookLists :
          bump_run = [pc |-> "update_cargo_toml",
                      args |-> [no_commit |-> no_commit, no_lock |-> no_lock,
                                no_readme |-> no_readme],
                      pre_bump_hooks |-> pre_bump_hooks,
                      post_bump_hooks |-> post_bump_hooks,
                      log |-> <<>>, committed |-> FALSE, result |-> "running"]
    /\ diff = DiffIdle
    /\ rebuild = RebuildIdle
    /\ race = RaceIdle
    /\ sign = SignIdle
    /\ RunIdle

BumpFail(err) == bump_run' = [bump_run EXCEPT !.pc = "done", !.result = err]

\* mod.rs 252-283: find the package, calculate the target version, write it
\* to Cargo.toml.
UpdateCargoToml ==
    /\ bump_run.pc = "update_cargo_toml"
    /\ \E io_ok \in BOOLEAN :
          IF ~io_ok THEN BumpFail("Failed to update Cargo.toml")
          ELSE bump_run' = [bump_run EXCEPT !.pc = "update_cargo_lock",
                                            !.log = Append(@, "Cargo.toml")]
    /\ UNCHANGED <<call, diff, rebuild, race, sign, repo_vars, run_vars>>

\* mod.rs 290-313: cargo update --workspace, unless --no-lock.
UpdateCargoLock ==
    /\ bump_run.pc = "update_cargo_lock"
    /\ \E status_success \in BOOLEAN :
          IF bump_run.args.no_lock
          THEN bump_run' = [bump_run EXCEPT !.pc = "update_readme"]
          ELSE IF ~status_success THEN BumpFail("cargo update --workspace failed")
          ELSE bump_run' = [bump_run EXCEPT !.pc = "update_readme",
                                            !.log = Append(@, "Cargo.lock")]
    /\ UNCHANGED <<call, diff, rebuild, race, sign, repo_vars, run_vars>>

\* mod.rs 315-343: the README, unless --no-readme.
UpdateReadme ==
    /\ bump_run.pc = "update_readme"
    /\ \E modified \in BOOLEAN :
          IF bump_run.args.no_readme \/ ~modified
          THEN bump_run' = [bump_run EXCEPT !.pc = "commit"]
          ELSE bump_run' = [bump_run EXCEPT !.pc = "commit",
                                            !.log = Append(@, "README.md")]
    /\ UNCHANGED <<call, diff, rebuild, race, sign, repo_vars, run_vars>>

\* mod.rs 345-403: commit_version_changes_with_files unless --no-commit,
\* then Ok(()).
CommitChanges ==
    /\ bump_run.pc = "commit"
    /\ \E commit_ok \in BOOLEAN :
          IF bump_run.args.no_commit
          THEN bump_run' = [bump_run EXCEPT !.pc = "done", !.result = "ok"]
          ELSE IF ~commit_ok THEN BumpFail("commit_version_changes_with_files failed")
          ELSE bump_run' = [bump_run EXCEPT !.pc = "done", !.result = "ok",
                                            !.committed = TRUE,
                                            !.log = Append(@, "commit")]
    /\ UNCHANGED <<call, diff, rebuild, race, sign, repo_vars, run_vars>>

NextBump ==
    \/ UpdateCargoToml
    \/ UpdateCargoLock
    \/ UpdateReadme
    \/ CommitChanges

SpecBump == InitBump /\ [][NextBump]_vars

\* The places of an event in the log of bump.
BumpEvents(what) == {i \in 1..Len(bump_run.log) : bump_run.log[i] = what}

\* C26: a finished bump has run its pre-bump hooks, up to the first that
\* fails, after the update of Cargo.toml and before the commit; when one of
\* them exits with a status other than 0 the bump returns an error and has
\* created no commit; post-bump hooks run only after the commit and never
\* with --no-commit.
C26_HooksAroundCommit ==
    LET failing == {i \in 1..Len(bump_run.pre_bump_hooks) : bump_run.pre_bump_hooks[i] # 0}
    IN /\ (bump_run.pc = "done" /\ bump_run.result = "ok" /\ bump_run.pre_bump_hooks # <<>>)
             => /\ BumpEvents("pre_bump_hook") # {}
                /\ \A h \in BumpEvents("pre_bump_hook") :
                      /\ \E u \in BumpEvents("Cargo.toml") : u < h
                      /\ \A c \in BumpEvents("commit") : h < c
       /\ (bump_run.pc = "done" /\ failing # {})
             => /\ bump_run.result # "ok"
                /\ ~bump_run.committed
       /\ \A h \in BumpEvents("post_bump_hook") :
             /\ ~bump_run.args.no_commit
             /\ \E c \in BumpEvents("commit") : c < h


(***************************************************************************)
(* In-place replacements and the order of the staged lines.                *)
(***************************************************************************)
\* The working lines are the base lines with some lines replaced in place,
\* each replacement classified like the line it replaces.
ReplacedInPlace(base, working, pred) ==
    /\ Len(base) = Len(working)
    /\ \A i \in 1..Len(base) :
          base[i] # working[i] =>
             IsRelevant(pred, base[i]) = IsRelevant(pred, working[i])

\* The base lines with the relevant replacements substituted where they are.
RelevantReplacementsApplied(base, working, pred) ==
    [i \in 1..Len(base) |->
        IF base[i] # working[i] /\ IsRelevant(pred, working[i])
        THEN working[i] ELSE base[i]]

\* C27: when the working text is the HEAD text with some lines replaced in
\* place, each replaced line classified like its replacement, the staged
\* content is the HEAD text with exactly the version-related replacements
\* substituted at their original positions, also next to other changes.
C27_ReplacementsStayInPlace ==
    diff.pc = "done" =>
       LET base == SplitLines(diff.head_content)
           working == SplitLines(diff.working_content)
       IN ReplacedInPlace(base, working, diff.pred) =>
             diff.merged = JoinLines(RelevantReplacementsApplied(base, working, diff.pred))

(***************************************************************************)
(* The priority of the criteria of find_matching_identity.                 *)
(***************************************************************************)
MatchesByKeyFile(identity, signing_key, files) ==
    /\ target_fingerprint(signing_key, files).set
    /\ identity.fingerprint = target_fingerprint(signing_key, files).value

MatchesByFingerprint(identity, signing_key) ==
    \/ Contains(identity.fingerprint, signing_key)
    \/ Contains(signing_key, identity.fingerprint)

MatchesByComment(identity, signing_key) ==
    /\ identity.comment # <<>>
    /\ \/ Contains(identity.comment, signing_key)
       \/ Contains(signing_key, identity.comment)

\* C29: find_matching_identity applies its criteria in priority order over
\* the whole list: an identity with the fingerprint of the public key file
\* if there is one, otherwise one matching by fingerprint substring,
\* otherwise one matching by comment; an identity matching only by comment
\* is never selected when another identity matches by fingerprint.
C29_CriteriaInPriorityOrder ==
    Returned_("find_matching_identity") =>
       LET identities == call.input.identities
           signing_key == call.input.signing_key
           files == call.input.files
           Some(P(_)) == \E i \in 1..Len(identities) : P(identities[i])
           ByKeyFile(identity) == MatchesByKeyFile(identity, signing_key, files)
           ByFingerprint(identity) == MatchesByFingerprint(identity, signing_key)
           ByComment(identity) == MatchesByComment(identity, signing_key)
           Selected(P(_)) == call.output.ok /\ P(identities[call.output.identity_idx])
       IN IF Some(ByKeyFile) THEN Selected(ByKeyFile)
          ELSE IF Some(ByFingerprint) THEN Selected(ByFingerprint)
          ELSE Some(ByComment) => Selected(ByComment)

(***************************************************************************)
(* The layout of the blob that is signed.                                  *)
(***************************************************************************)
\* The big-endian number in four bytes.
FromBeBytes(b) == ((b[1] * 256 + b[2]) * 256 + b[3]) * 256 + b[4]

\* The length-prefixed fields of a byte string, or <<"malformed">> at the
\* end when a length runs past the end.
RECURSIVE ReadFields(_)
ReadFields(bytes) ==
    IF bytes = <<>> THEN <<>>
    ELSE IF Len(bytes) < 4 \/ Len(bytes) < 4 + FromBeBytes(SubSeq(bytes, 1, 4))
    THEN <<"malformed">>
    ELSE LET n == FromBeBytes(SubSeq(bytes, 1, 4))
         IN <<SubSeq(bytes, 5, 4 + n)>> \o ReadFields(SubSeq(bytes, 5 + n, Len(bytes)))

\* C30: the blob sent to the agent is the 6 bytes "SSHSIG" followed by four
\* fields, each behind its length as a 32-bit big-endian integer: "git",
\* the empty string, "sha512" and the 64-byte digest of the raw payload, 95
\* bytes in total; the key-file strategy signs with the same namespace and
\* the same hash algorithm.
C30_SignedBlobLayout ==
    Returned_("sign_with_ssh") =>
       IF call.input.strategy = "agent"
       THEN /\ Len(call.output) = 95
            /\ SubSeq(call.output, 1, 6) = <<83, 83, 72, 83, 73, 71>>
            /\ ReadFields(SubSeq(call.output, 7, Len(call.output)))
                  = << <<103, 105, 116>>, <<>>, <<115, 104, 97, 53, 49, 50>>,
                       Sha512_digest(call.input.payload) >>
            /\ Len(Sha512_digest(call.input.payload)) = 64
       ELSE /\ call.output.namespace = <<"g", "i", "t">>
            /\ call.output.hash_alg = <<"s", "h", "a", "5", "1", "2">>
            /\ call.output.msg = call.input.payload

C30_Witness ==
    /\ Returned_("sign_with_ssh")
    /\ call.input.strategy = "agent"
    /\ call.input.payload = <<116, 10, 0>>
    /\ Len(call.output) = 95

(***************************************************************************)
(* The signed payload and the commit object that is written.               *)
(***************************************************************************)
\* The lines of a commit object without the header of the given name and
\* its continuation lines; the lines from the empty line on are kept.
RECURSIVE WithoutHeaderLines(_, _, _)
WithoutHeaderLines(lines, name, in_header) ==
    IF lines = <<>> THEN <<>>
    ELSE IF Head(lines) = <<"\n">> THEN lines
    ELSE IF Head(lines)[1] = name \/ (in_header /\ Head(lines)[1] = " ")
    THEN WithoutHeaderLines(Tail(lines), name, TRUE)
    ELSE <<Head(lines)>> \o WithoutHeaderLines(Tail(lines), name, FALSE)

WithoutHeader(bytes, name) == JoinLines(WithoutHeaderLines(SplitLines(bytes), name, FALSE))

\* C28: for every commit written with signing enabled, the bytes given to
\* the signer are built from the same tree, parent, author, committer and
\* message as the commit object that is written: the written commit without
\* its signature header is exactly the signed payload.
C28_SignedPayloadIsTheCommitWithoutSignature ==
    read_signing_config(config).enabled =>
       \A c \in NewCommits :
          /\ c.extra_headers # <<>>
          /\ WithoutHeader(commit_write_to(c), "gpgsig") = c.extra_headers[1][2].signed

C28_Witness ==
    /\ read_signing_config(config).enabled
    /\ Succeeded
    /\ \E c \in NewCommits :
          /\ Len(commit_write_to(c)) > Len(c.extra_headers[1][2].signed)
          /\ Contains(commit_write_to(c), PemEnd)

====
